---- MODULE Spec2Model ----
(***************************************************************************)
(* A model of the decision pipeline of A.W.A.R.E.: the isolation state     *)
(* machine (backend/isolation/state.py), the isolation planner             *)
(* (backend/isolation/planner.py, network.py, config.py), the leak         *)
(* detector (ml/detectors/rule_based.py), the demand forecaster, pump      *)
(* scheduler and energy optimizer (ml/energy), the isolation endpoints     *)
(* (backend/app.py) and the agents on their event bus (agents).            *)
(*                                                                         *)
(* Each component has its own specification over the shared variables:     *)
(*   SpecFSM     one owner calling IsolationStateMachine.transition        *)
(*   SpecRace    two callers sharing one IsolationStateMachine             *)
(*   SpecPlan    IsolationPlanner.plan, one loop iteration per step        *)
(*   SpecSearch  the search loop of plan on graphs of like valves          *)
(*   SpecDetect  LeakDetector.fit_baseline / detect                        *)
(*   SpecReasons LeakDetector._top_reasons on arbitrary scores             *)
(*   SpecCusum   the loop of detect over a stream of row scores            *)
(*   SpecSched   PumpScheduler.build_schedule                              *)
(*   SpecEnergy  DemandForecaster.forecast / EnergyOptimizer.optimize      *)
(*   SpecApi     /isolation/plan, /isolation/execute, /isolation/rollback  *)
(*   SpecAgents  run_episode: the agents and the event bus                 *)
(*   SpecEpisodes run_episode called several times in one process          *)
(*   SpecCalib   the probability of one row in double arithmetic           *)
(***************************************************************************)
EXTENDS Integers, Sequences, FiniteSets, TLC

VARIABLES
    \* ---- IsolationStateMachine, one owner (SpecFSM)
    status,       \* IsolationStateMachine.status
    hist,         \* the transition calls made so far, oldest first
    \* ---- IsolationStateMachine shared by two callers (SpecRace)
    serialized,   \* TRUE: callers run transition under an external lock
    rstatus,      \* the shared instance's status
    cpc,          \* caller -> the line of transition it is about to run
    ctarget,      \* caller -> its new_status argument
    callowed,     \* caller -> its local variable `allowed`
    cresult,      \* caller -> what its last call returned or raised
    lastChange,   \* the last change of rstatus, <<from, to>>, or <<>>
    \* ---- IsolationPlanner (SpecPlan)
    graph,        \* IsolationPlanner.graph: the valves, in the order given
    config,       \* IsolationPlanner.config: [policy, max_hops]
    ppc,          \* "idle", "loop" (inside plan's while loop) or "done"
    leak,         \* plan's arguments <<start_node, end_node>>
    queue,        \* plan's local deque of <<node, hops>>
    visited,      \* plan's local set of expanded nodes
    valve_hops,   \* plan's local dict valve id -> hops, in insertion order
    planned,      \* what the last plan call returned, or NoPlan
    \* ---- LeakDetector (SpecDetect)
    dconfig,      \* LeakDetector.config: [baseline_window, minimum_support]
    baseline,     \* LeakDetector._baseline: NoBaseline or column -> [mean, std]
    fitWindow,    \* the feature rows the stored baseline was computed from
    everFitted,   \* TRUE once a fit_baseline call has succeeded
    lastCall,     \* the last fit_baseline / detect call and its outcome
    \* ---- LeakDetector._top_reasons on its own (SpecReasons)
    rscores,      \* the argument `scores`: metric -> z-score
    rlimit,       \* self.config.max_reasons
    rout,         \* what _top_reasons returned, or NotCalled
    \* ---- the loop of LeakDetector.detect over the rows' scores (SpecCusum)
    ccfg,         \* self.config: [trigger_threshold, hysteresis, decay]
    ccum,         \* detect's local `cumulative`
    cscore,       \* the current row's `score`, or NoRow before the first row
    cmax,         \* the largest score of the rows of this call so far
    cprob,        \* the current row's probability, compared with 0.5
    ctriggered,   \* the current row's `triggered`
    cwas,         \* the previous row's `triggered`
    crun,         \* how many rows in a row had a sustaining score (capped)
    \* ---- PumpScheduler (SpecSched)
    sconfig,      \* PumpScheduler.config
    sforecast,    \* build_schedule's argument `forecast`
    stariff,      \* build_schedule's argument `tariff_series`, normalized
    sresult,      \* what build_schedule returned or raised, or NoSchedule
    \* ---- DemandForecaster and EnergyOptimizer (SpecEnergy)
    ehistory,     \* the argument `demand_series`
    etariff,      \* optimize's argument `tariff_series`, normalized
    ehorizon,     \* the keyword argument `horizon_hours`
    eout,         \* the call made and what it returned or raised, or NoEnergyCall
    \* ---- the isolation endpoints of backend/app.py (SpecApi)
    astatus,      \* _state_machine.status
    aactions,     \* the IsolationAction rows committed so far, oldest first
    alast,        \* the last request served and its outcome, or NoRequest
    \* ---- the agents on their event bus (SpecAgents)
    bpolicy,      \* the policy run_episode loaded: agent -> its settings
    bwindow,      \* run_episode's telemetry window
    bhistory,     \* EventBus._history
    bstack,       \* the publish calls in progress, the innermost last
    bsafe,        \* WatcherAgent._safe_mode
    bdelivered,   \* the callbacks publish has called so far: [agent, event]
    bphase,       \* "imported", "start", "running" or "returned"
    \* ---- run_episode called again and again in one process (SpecEpisodes)
    mdefault,     \* the module-level dict DEFAULT_POLICY of agents/policies.py
    bpath,        \* run_episode's argument policy_path
    boverride,    \* run_episode's argument chaos_override
    bruns,        \* how many times run_episode was called
    \* ---- _calibrate_probability in double arithmetic (SpecCalib)
    kcfg,         \* self.config.trigger_threshold, with the spacing of doubles at it
    kcum,         \* the argument `cumulative`
    kprob,        \* the probability returned, compared with 0.5, or NotCalled
    ktriggered    \* `triggered` of the row

fsmVars  == <<status, hist>>
raceVars == <<serialized, rstatus, cpc, ctarget, callowed, cresult, lastChange>>
planVars == <<graph, config, ppc, leak, queue, visited, valve_hops, planned>>
detVars  == <<dconfig, baseline, fitWindow, everFitted, lastCall>>
reasonVars == <<rscores, rlimit, rout>>
schedVars == <<sconfig, sforecast, stariff, sresult>>
energyVars == <<ehistory, etariff, ehorizon, eout>>
apiVars == <<astatus, aactions, alast>>
agentVars == <<bpolicy, bwindow, bhistory, bstack, bsafe, bdelivered, bphase>>
episodeVars == <<mdefault, bpath, boverride, bruns>>
calibVars == <<kcfg, kcum, kprob, ktriggered>>
cusumVars == <<ccfg, ccum, cscore, cmax, cprob, ctriggered, cwas, crun>>
vars     == <<fsmVars, raceVars, planVars, detVars, reasonVars, cusumVars, schedVars, energyVars, apiVars, agentVars, episodeVars, calibVars>>

\* what the actions of one component leave alone
notFSM    == <<raceVars, planVars, detVars, reasonVars, cusumVars, schedVars, energyVars, apiVars, agentVars, episodeVars, calibVars>>
notRace   == <<fsmVars, planVars, detVars, reasonVars, cusumVars, schedVars, energyVars, apiVars, agentVars, episodeVars, calibVars>>
notPlan   == <<fsmVars, raceVars, detVars, reasonVars, cusumVars, schedVars, energyVars, apiVars, agentVars, episodeVars, calibVars>>
notDetect == <<fsmVars, raceVars, planVars, reasonVars, cusumVars, schedVars, energyVars, apiVars, agentVars, episodeVars, calibVars>>
notReasons == <<fsmVars, raceVars, planVars, detVars, cusumVars, schedVars, energyVars, apiVars, agentVars, episodeVars, calibVars>>
notCusum == <<fsmVars, raceVars, planVars, detVars, reasonVars, schedVars, energyVars, apiVars, agentVars, episodeVars, calibVars>>
notSched == <<fsmVars, raceVars, planVars, detVars, reasonVars, cusumVars, energyVars, apiVars, agentVars, episodeVars, calibVars>>
notEnergy == <<fsmVars, raceVars, planVars, detVars, reasonVars, cusumVars, schedVars, apiVars, agentVars, episodeVars, calibVars>>
notApi == <<fsmVars, raceVars, planVars, detVars, reasonVars, cusumVars, schedVars, energyVars, agentVars, episodeVars, calibVars>>
notAgents == <<fsmVars, raceVars, planVars, detVars, reasonVars, cusumVars, schedVars, energyVars, apiVars, episodeVars, calibVars>>
notEpisodes == <<fsmVars, raceVars, planVars, detVars, reasonVars, cusumVars, schedVars, energyVars, apiVars, calibVars>>
notCalib == <<fsmVars, raceVars, planVars, detVars, reasonVars, cusumVars, schedVars, energyVars, apiVars, agentVars, episodeVars>>

(***************************************************************************)
(* backend/isolation/state.py                                              *)
(***************************************************************************)
IsolationStatus == {"NORMAL", "SUSPECTED", "ISOLATING", "ISOLATED", "RECOVERY"}

VALID_TRANSITIONS_NoRecoveryExit ==
    [s \in IsolationStatus |->
        CASE s = "NORMAL"    -> {"SUSPECTED"}
          [] s = "SUSPECTED" -> {"ISOLATING", "NORMAL"}
          [] s = "ISOLATING" -> {"ISOLATED", "RECOVERY"}
          [] s = "ISOLATED"  -> {"RECOVERY"}
          [] s = "RECOVERY"  -> {}]

VALID_TRANSITIONS_IsolatedToNormal ==
    [s \in IsolationStatus |->
        CASE s = "NORMAL"    -> {"SUSPECTED"}
          [] s = "SUSPECTED" -> {"ISOLATING", "NORMAL"}
          [] s = "ISOLATING" -> {"ISOLATED", "RECOVERY"}
          [] s = "ISOLATED"  -> {"RECOVERY", "NORMAL"}
          [] s = "RECOVERY"  -> {"NORMAL"}]

VALID_TRANSITIONS ==
    [s \in IsolationStatus |->
        CASE s = "NORMAL"    -> {"SUSPECTED"}
          [] s = "SUSPECTED" -> {"ISOLATING", "NORMAL"}
          [] s = "ISOLATING" -> {"ISOLATED", "RECOVERY"}
          [] s = "ISOLATED"  -> {"RECOVERY"}
          [] s = "RECOVERY"  -> {"NORMAL"}]

\* allowed = VALID_TRANSITIONS.get(self.status, set())
AllowedFrom(s) ==
    IF s \in DOMAIN VALID_TRANSITIONS THEN VALID_TRANSITIONS[s] ELSE {}

\* a mutant of the membership test: a self-transition passes the check
TransitionAllowed_SelfOk(cur, new_status) ==
    new_status = cur \/ new_status \in AllowedFrom(cur)

\* `if new_status not in allowed: raise ValueError`
TransitionAllowed(cur, new_status) == new_status \in AllowedFrom(cur)

MaxCalls == 5

InitFSM ==
    /\ status = "NORMAL"
    /\ hist = <<>>

IdleFSM == InitFSM

\* IsolationStateMachine.transition(new_status), the whole call
transition(new_status) ==
    /\ Len(hist) < MaxCalls
    /\ UNCHANGED notFSM
    /\ IF TransitionAllowed(status, new_status)
       THEN /\ status' = new_status
            /\ hist' = Append(hist, [from |-> status, target |-> new_status,
                                     raised |-> "none", returned |-> new_status])
       ELSE /\ status' = status
            /\ hist' = Append(hist, [from |-> status, target |-> new_status,
                                     raised |-> "ValueError", returned |-> "none"])

(***************************************************************************)
(* Two callers on one shared instance (backend/app.py keeps one            *)
(* module-level _state_machine that the request handlers, run on a thread  *)
(* pool, all use).  transition is three steps: line 32 reads self.status   *)
(* into `allowed`, line 33 tests membership, line 35 assigns self.status,  *)
(* line 36 reads self.status again for the return value.                   *)
(***************************************************************************)
Callers == {"c1", "c2"}

RaceStart(mode) ==
    /\ serialized = mode
    /\ rstatus = "NORMAL"
    /\ cpc = [c \in Callers |-> "idle"]
    /\ ctarget = [c \in Callers |-> "NORMAL"]
    /\ callowed = [c \in Callers |-> {}]
    /\ cresult = [c \in Callers |-> "none"]
    /\ lastChange = <<>>

InitRace == \E mode \in BOOLEAN : RaceStart(mode)

\* the shared instance is not exercised
IdleRace == RaceStart(TRUE)

\* line 32, entered only when no other caller is inside when serialized
RaceCall(c, new_status) ==
    /\ cpc[c] = "idle"
    /\ serialized => \A d \in Callers : cpc[d] = "idle"
    /\ ctarget' = [ctarget EXCEPT ![c] = new_status]
    /\ callowed' = [callowed EXCEPT ![c] = AllowedFrom(rstatus)]
    /\ cpc' = [cpc EXCEPT ![c] = "l33"]
    /\ UNCHANGED <<serialized, rstatus, cresult, lastChange>>
    /\ UNCHANGED notRace

\* lines 33-34
RaceCheck(c) ==
    /\ cpc[c] = "l33"
    /\ IF ctarget[c] \in callowed[c]
       THEN /\ cpc' = [cpc EXCEPT ![c] = "l35"]
            /\ UNCHANGED cresult
       ELSE /\ cpc' = [cpc EXCEPT ![c] = "idle"]
            /\ cresult' = [cresult EXCEPT ![c] = "ValueError"]
    /\ UNCHANGED <<serialized, rstatus, ctarget, callowed, lastChange>>
    /\ UNCHANGED notRace

\* line 35
RaceAssign(c) ==
    /\ cpc[c] = "l35"
    /\ rstatus' = ctarget[c]
    /\ lastChange' = IF rstatus # ctarget[c] THEN <<rstatus, ctarget[c]>>
                                             ELSE lastChange
    /\ cpc' = [cpc EXCEPT ![c] = "l36"]
    /\ UNCHANGED <<serialized, ctarget, callowed, cresult>>
    /\ UNCHANGED notRace

\* line 36
RaceReturn(c) ==
    /\ cpc[c] = "l36"
    /\ cresult' = [cresult EXCEPT ![c] = rstatus]
    /\ cpc' = [cpc EXCEPT ![c] = "idle"]
    /\ UNCHANGED <<serialized, rstatus, ctarget, callowed, lastChange>>
    /\ UNCHANGED notRace

(***************************************************************************)
(* backend/isolation/network.py, config.py, planner.py                     *)
(*                                                                         *)
(* A valve is [id, connects, customers_affected, loss_rate_lps]; the loss  *)
(* rate is held in tenths of a litre per second, so that the sample        *)
(* graph's 2.5 and 1.5 are the integers 25 and 15 (only their order is     *)
(* ever used).  A graph is the sequence of its valves: WaterNetworkGraph   *)
(* keeps them in a dict, which iterates in insertion order.                *)
(***************************************************************************)
Valve(id, a, b, customers, loss) ==
    [id |-> id, connects |-> <<a, b>>,
     customers_affected |-> customers, loss_rate_lps |-> loss]

\* WaterNetworkGraph.sample()
SampleGraph ==
    << Valve("V_RES_J1", "RES1", "J1", 120, 60),
       Valve("V_J1_J2", "J1", "J2", 80, 40),
       Valve("V_J2_J3", "J2", "J3", 45, 25),
       Valve("V_J3_J4", "J3", "J4", 30, 15),
       Valve("V_J2_J5", "J2", "J5", 55, 20) >>

\* WaterNetworkGraph.adjacency, as neighbors(node) reads it
neighbors(g, node) ==
    {g[i].connects[2] : i \in {j \in 1..Len(g) : g[j].connects[1] = node}}
    \cup {g[i].connects[1] : i \in {j \in 1..Len(g) : g[j].connects[2] = node}}

NoValve == [id |-> "None"]

\* WaterNetworkGraph.valve_between: the first valve, in dict order, whose
\* two junctions are {a, b}
valve_between(g, a, b) ==
    LET hits == {i \in 1..Len(g) : {g[i].connects[1], g[i].connects[2]} = {a, b}}
    IN  IF hits = {} THEN NoValve
        ELSE g[CHOOSE i \in hits : \A j \in hits : i <= j]

\* self.graph.valves[valve_id]
ValveById(g, id) == g[CHOOSE i \in 1..Len(g) : g[i].id = id]

MINIMIZE_CUSTOMERS == "minimize_customers"
MINIMIZE_WATER_LOSS == "minimize_water_loss"

\* a mutant of the hop guard: one hop too many is admitted
WithinHops_OffByOne(next_hops, max_hops) == next_hops <= max_hops + 1

\* `if next_hops <= self.config.max_hops`
WithinHops(next_hops, max_hops) == next_hops <= max_hops

AlreadyVisited_Never(node, seen) == FALSE

\* `if node in visited`
AlreadyVisited(node, seen) == node \in seen

\* valve_hops.get(valve.id)
HopsOf(vh, id) ==
    LET hits == {i \in 1..Len(vh) : vh[i].id = id}
    IN  IF hits = {} THEN -1 ELSE vh[CHOOSE i \in hits : TRUE].hops

\* valve_hops[valve.id] = next_hops: a new key goes last, a key already
\* there keeps its place
SetHops(vh, id, h) ==
    IF \E i \in 1..Len(vh) : vh[i].id = id
    THEN [i \in 1..Len(vh) |-> IF vh[i].id = id THEN [id |-> id, hops |-> h]
                                                ELSE vh[i]]
    ELSE Append(vh, [id |-> id, hops |-> h])

\* the body of `for neighbor in self.graph.neighbors(node)` over the
\* neighbours in the order `order`, from its i-th element on; the result is
\* the pair <<valve_hops, queue>>
RECURSIVE ExpandNode(_, _, _, _, _, _, _, _)
ExpandNode(g, max_hops, node, hops, order, i, vh, q) ==
    IF i > Len(order) THEN <<vh, q>>
    ELSE LET neighbor  == order[i]
             valve     == valve_between(g, node, neighbor)
             next_hops == hops + 1
         IN  IF valve = NoValve
             THEN ExpandNode(g, max_hops, node, hops, order, i + 1, vh, q)
             ELSE IF WithinHops(next_hops, max_hops)
             THEN LET existing == HopsOf(vh, valve.id)
                      vh2 == IF existing = -1 \/ next_hops < existing
                             THEN SetHops(vh, valve.id, next_hops)
                             ELSE vh
                  IN  ExpandNode(g, max_hops, node, hops, order, i + 1, vh2,
                                 Append(q, <<neighbor, next_hops>>))
             ELSE ExpandNode(g, max_hops, node, hops, order, i + 1, vh, q)

\* the orders in which a Python set of junction ids may be iterated
Orderings(S) ==
    {o \in [1..Cardinality(S) -> S] : \A x \in S : \E i \in DOMAIN o : o[i] = x}

\* _rank_valves.primary / secondary
primary(policy, valve) ==
    IF policy = MINIMIZE_CUSTOMERS THEN valve.customers_affected
                                   ELSE valve.loss_rate_lps

secondary(policy, valve) ==
    IF policy = MINIMIZE_CUSTOMERS THEN valve.loss_rate_lps
                                   ELSE valve.customers_affected

\* a mutant of the sort key: the secondary key is dropped
KeyLess_PrimaryOnly(policy, a, b) == primary(policy, a) < primary(policy, b)

\* the order of the tuples (primary(valve), secondary(valve))
KeyLess(policy, a, b) ==
    \/ primary(policy, a) < primary(policy, b)
    \/ /\ primary(policy, a) = primary(policy, b)
       /\ secondary(policy, a) < secondary(policy, b)

\* one step of a stable insertion sort: v goes after every element whose
\* key is not greater than its own
InsertByKey(policy, sorted, v) ==
    LET before == {i \in 1..Len(sorted) : ~KeyLess(policy, v, sorted[i])}
        k == IF before = {} THEN 0
             ELSE CHOOSE i \in before : \A j \in before : j <= i
    IN  SubSeq(sorted, 1, k) \o <<v>> \o SubSeq(sorted, k + 1, Len(sorted))

RECURSIVE SortedPrefix(_, _, _)
SortedPrefix(policy, valves, n) ==
    IF n = 0 THEN <<>>
    ELSE CHOOSE sorted \in { InsertByKey(policy, prefix, valves[n]) :
                                prefix \in {SortedPrefix(policy, valves, n - 1)} } : TRUE

\* IsolationPlanner._rank_valves: sorted() is stable
rank_valves(policy, valves) == SortedPrefix(policy, valves, Len(valves))

\* the list comprehension that builds the IsolationStep objects
StepsOf(ranked) ==
    [index \in 1..Len(ranked) |->
        [order |-> index,
         valve_id |-> ranked[index].id,
         customers_affected |-> ranked[index].customers_affected,
         loss_rate_lps |-> ranked[index].loss_rate_lps]]

\* a mutant of the plan's flag: a plan without steps needs no approval
ApprovalRequired_OnlyWithSteps(steps) == steps # <<>>

\* approval_required=True
ApprovalRequired(steps) == TRUE

NoPlan == [raised |-> "none", steps |-> <<>>, approval_required |-> FALSE,
           returned |-> FALSE]

(***************************************************************************)
(* The inputs: the sample graph, and every graph of at most MaxValves      *)
(* valves over the junctions J1..J3 (self-loops and parallel valves        *)
(* included), each valve with one of three (customers, loss) profiles.     *)
(***************************************************************************)
MaxValves == 2
MaxHops == 2

GenJunctions == <<"J1", "J2", "J3">>
GenConnects ==
    {<<GenJunctions[a], GenJunctions[b]>> :
        a \in DOMAIN GenJunctions, b \in DOMAIN GenJunctions} \ {<<"J2", "J1">>,
        <<"J3", "J1">>, <<"J3", "J2">>}
GenProfiles == {<<10, 20>>, <<20, 10>>, <<10, 10>>}
GenIds == [i \in 1..(MaxValves + 1) |-> "V" \o ToString(i)]

GenGraphs ==
    UNION { { [i \in 1..n |-> Valve(GenIds[i], c[i][1], c[i][2], m[i][1], m[i][2])] :
                c \in [1..n -> GenConnects], m \in [1..n -> GenProfiles] } :
            n \in 0..MaxValves }

\* a ring of three junctions with a valve from J3 to itself
RingGraph ==
    << Valve("R12", "J1", "J2", 10, 20), Valve("R23", "J2", "J3", 20, 10),
       Valve("R31", "J3", "J1", 10, 10), Valve("R33", "J3", "J3", 20, 20) >>

Graphs == {SampleGraph, RingGraph} \cup GenGraphs

\* IsolationPolicy, and a value that is not a member of it
Policies == {MINIMIZE_CUSTOMERS, MINIMIZE_WATER_LOSS, "minimize_energy"}

\* <<start_node, end_node>>; JX is in no graph.  The generated graphs
\* carry every labelling of J1..J3, so these stand for every pair.
LeakLocations ==
    { <<"J1", "J2">>, <<"J2", "J3">>, <<"J1", "J1">>,
      <<"J1", "JX">>, <<"JX", "J1">>, <<"JX", "JX">> }

PlanLocals ==
    /\ ppc = "idle"
    /\ leak = <<"none", "none">>
    /\ queue = <<>>
    /\ visited = {}
    /\ valve_hops = <<>>
    /\ planned = NoPlan

\* IsolationPlanner(graph, config)
InitPlan ==
    /\ graph \in Graphs
    /\ config \in [policy : Policies, max_hops : 0..MaxHops]
    /\ PlanLocals

\* the planners whose search is followed for its own sake: the valves all
\* alike, the policy the default one
SearchGraphs ==
    {SampleGraph, RingGraph}
        \cup {g \in GenGraphs : \A i \in 1..Len(g) :
                  g[i].customers_affected = 10 /\ g[i].loss_rate_lps = 20}

InitSearch ==
    /\ graph \in SearchGraphs
    /\ config \in [policy : {MINIMIZE_CUSTOMERS}, max_hops : 0..MaxHops]
    /\ PlanLocals

IdlePlan ==
    /\ graph = SampleGraph
    /\ config = [policy |-> MINIMIZE_CUSTOMERS, max_hops |-> 3]
    /\ PlanLocals

\* plan(leak_pipe_id, start_node, end_node), lines 50-52
PlanCall(start_node, end_node) ==
    /\ ppc \in {"idle", "done"}
    /\ ppc' = "loop"
    /\ leak' = <<start_node, end_node>>
    /\ queue' = << <<start_node, 0>>, <<end_node, 0>> >>
    /\ visited' = {}
    /\ valve_hops' = <<>>
    /\ planned' = NoPlan
    /\ UNCHANGED <<graph, config>>
    /\ UNCHANGED notPlan

\* one iteration of `while queue`, lines 54-70
PlanIterate ==
    /\ ppc = "loop"
    /\ queue # <<>>
    /\ LET node == Head(queue)[1]
           hops == Head(queue)[2]
           rest == Tail(queue)
       IN  IF hops > config.max_hops \/ AlreadyVisited(node, visited)
           THEN /\ queue' = rest
                /\ UNCHANGED <<visited, valve_hops>>
           ELSE /\ visited' = visited \cup {node}
                /\ \E order \in Orderings(neighbors(graph, node)) :
                      LET out == ExpandNode(graph, config.max_hops, node, hops,
                                            order, 1, valve_hops, rest)
                      IN  /\ valve_hops' = out[1]
                          /\ queue' = out[2]
    /\ UNCHANGED <<graph, config, ppc, leak, planned>>
    /\ UNCHANGED notPlan

\* lines 72-87, once the queue is empty
PlanReturn ==
    /\ ppc = "loop"
    /\ queue = <<>>
    /\ LET candidate_valves ==
               [i \in 1..Len(valve_hops) |-> ValveById(graph, valve_hops[i].id)]
           steps == StepsOf(rank_valves(config.policy, candidate_valves))
       IN  planned' = [raised |-> "none", steps |-> steps,
                       approval_required |-> ApprovalRequired(steps),
                       returned |-> TRUE]
    /\ ppc' = "done"
    /\ UNCHANGED <<graph, config, leak, queue, visited, valve_hops>>
    /\ UNCHANGED notPlan

(***************************************************************************)
(* ml/detectors/rule_based.py                                              *)
(*                                                                         *)
(* Floats are fixed-point integers in units of 1/Scale, divisions          *)
(* truncate; a float that may be NaN is a record [nan, v].  The telemetry  *)
(* events of one call are given grouped by timestamp, in timestamp order   *)
(* (the code sorts and groups them itself): one record per timestamp with  *)
(* the values of its pressure_kpa, flow_lps and demand_lps events.         *)
(***************************************************************************)
Scale == 100

NaN == [nan |-> TRUE, v |-> 0]
Num(x) == [nan |-> FALSE, v |-> x]

RECURSIVE SumSeq(_)
SumSeq(q) == IF q = <<>> THEN 0 ELSE Head(q) + SumSeq(Tail(q))

Abs(x) == IF x < 0 THEN -x ELSE x
Max(a, b) == IF a >= b THEN a ELSE b

\* the largest r with r * r <= x, for x >= 0
RECURSIVE ISqrtBetween(_, _, _)
ISqrtBetween(lo, hi, x) ==
    IF lo >= hi THEN lo
    ELSE LET mid == (lo + hi + 1) \div 2
         IN  IF mid * mid <= x THEN ISqrtBetween(mid, hi, x)
                               ELSE ISqrtBetween(lo, mid - 1, x)

ISqrt(x) == ISqrtBetween(0, x, x)

\* groupby("timestamp")["value"].mean() of the pressure events, and
\* .sum() then .abs() of the flow and of the demand events; a timestamp
\* without events of a metric has NaN there
GroupAggregates(group) ==
    [pressure_mean |->
        IF group.pressure = <<>> THEN NaN
        ELSE Num((SumSeq(group.pressure) * Scale) \div Len(group.pressure)),
     flow_total |->
        IF group.flow = <<>> THEN NaN ELSE Num(Abs(SumSeq(group.flow)) * Scale),
     demand_total |->
        IF group.demand = <<>> THEN NaN ELSE Num(Abs(SumSeq(group.demand)) * Scale)]

FeatureColumns == {"pressure_mean", "flow_total", "demand_total"}

\* .fillna(method="ffill").dropna(): rows i.. of the frame, `last` being the
\* latest value seen so far in each column
RECURSIVE FilledRows(_, _, _)
FilledRows(events, i, last) ==
    IF i > Len(events) THEN <<>>
    ELSE LET agg == GroupAggregates(events[i])
             row == [c \in FeatureColumns |-> IF agg[c].nan THEN last[c] ELSE agg[c]]
             rest == FilledRows(events, i + 1, row)
         IN  IF \E c \in FeatureColumns : row[c].nan
             THEN rest
             ELSE << [c \in FeatureColumns |-> row[c].v] >> \o rest

NoFeatures == [raised |-> "none", rows |-> <<>>]

\* LeakDetector._events_to_features: an empty frame is returned as it is;
\* features["pressure_mean"].iloc[0] raises IndexError when no row is left
events_to_features(events) ==
    IF events = <<>> THEN NoFeatures
    ELSE LET rows == FilledRows(events, 1, [c \in FeatureColumns |-> NaN])
         IN  IF rows = <<>> THEN [raised |-> "IndexError", rows |-> <<>>]
             ELSE LET baseline_pressure == rows[1].pressure_mean
                  IN  [raised |-> "none",
                       rows |-> [i \in 1..Len(rows) |->
                          [pressure_mean |-> rows[i].pressure_mean,
                           flow_total    |-> rows[i].flow_total,
                           demand_total  |-> rows[i].demand_total,
                           pressure_drop |->
                              Max(0, baseline_pressure - rows[i].pressure_mean)]]]

BaselineColumns == {"pressure_mean", "pressure_drop", "flow_total", "demand_total"}

Column(rows, column) == [i \in 1..Len(rows) |-> rows[i][column]]

\* float(window[column].mean())
MeanOf(xs) == SumSeq(xs) \div Len(xs)

\* window[column].std(ddof=1): NaN for a single sample
SampleStd(xs) ==
    LET n == Len(xs)
        sumsq == SumSeq([i \in 1..n |-> xs[i] * xs[i]])
        total == SumSeq(xs)
    IN  IF n < 2 THEN NaN
        ELSE Num(ISqrt((n * sumsq - total * total) \div (n * (n - 1))))

\* float(std or 1.0): 0.0 is falsy, NaN is truthy
FlooredStd(std) == IF ~std.nan /\ std.v = 0 THEN Num(Scale) ELSE std

NoBaseline == [fitted |-> FALSE]

\* lines 53-58 of fit_baseline
BaselineOf(rows, baseline_window) ==
    LET window == SubSeq(rows, 1, IF Len(rows) < baseline_window THEN Len(rows)
                                                                  ELSE baseline_window)
    IN  [fitted |-> TRUE,
         stats |-> [column \in BaselineColumns |->
                       [mean |-> MeanOf(Column(window, column)),
                        std  |-> FlooredStd(SampleStd(Column(window, column)))]]]

WindowOf(rows, baseline_window) ==
    SubSeq(rows, 1, IF Len(rows) < baseline_window THEN Len(rows) ELSE baseline_window)

Metrics == <<"pressure", "flow", "demand">>

\* LeakDetector._baseline_mapping
baseline_mapping(b, key) ==
    CASE key = "pressure" -> b.stats["pressure_drop"]
      [] key = "flow"     -> b.stats["flow_total"]
      [] key = "demand"   -> b.stats["demand_total"]

RowValue(row, key) ==
    CASE key = "pressure" -> row.pressure_drop
      [] key = "flow"     -> row.flow_total
      [] key = "demand"   -> row.demand_total

\* deviation / std raises ZeroDivisionError when std is 0.0
DividesByZero(b, row) ==
    \E k \in 1..3 : LET std == baseline_mapping(b, Metrics[k]).std
                    IN  ~std.nan /\ std.v = 0

\* LeakDetector._compute_z_scores: max(0.0, deviation / std); a NaN
\* quotient loses the comparison in max and 0.0 is returned
compute_z_scores(b, row) ==
    [key \in {"pressure", "flow", "demand"} |->
        LET stat == baseline_mapping(b, key)
            deviation == IF key # "pressure" THEN RowValue(row, key) - stat.mean
                                             ELSE RowValue(row, key)
        IN  IF stat.std.nan \/ stat.std.v = 0 \/ deviation <= 0 THEN 0
            ELSE (deviation * Scale) \div stat.std.v]

\* LeakDetectorConfig defaults, in units of 1/Scale
trigger_threshold == 250
hysteresis == 80
decay == 60
max_reasons == 3

\* sorted(scores.items(), key=score, reverse=True): stable, so equal scores
\* stay in the order pressure, flow, demand
RECURSIVE InsertReason(_, _)
InsertReason(sorted, r) ==
    IF sorted = <<>> THEN <<r>>
    ELSE IF Head(sorted).score >= r.score
         THEN <<Head(sorted)>> \o InsertReason(Tail(sorted), r)
         ELSE <<r>> \o sorted

top_reasons_KeepsZeroScores(scores, limit) ==
    LET items == [k \in 1..3 |-> [metric |-> Metrics[k], score |-> scores[Metrics[k]]]]
        ordered == InsertReason(InsertReason(InsertReason(<<>>, items[1]), items[2]),
                                items[3])
    IN  SubSeq(ordered, 1, IF limit < 3 THEN limit ELSE 3)

\* LeakDetector._top_reasons
top_reasons(scores, limit) ==
    LET items == [k \in 1..3 |-> [metric |-> Metrics[k], score |-> scores[Metrics[k]]]]
        ordered == InsertReason(InsertReason(InsertReason(<<>>, items[1]), items[2]),
                                items[3])
        top == SubSeq(ordered, 1, IF limit < 3 THEN limit ELSE 3)
    IN  SelectSeq(top, LAMBDA r : r.score > 0)

\* LeakDetectorConfig(): the fields the cumulative score depends on
DefaultDetectorConfig ==
    [trigger_threshold |-> trigger_threshold, hysteresis |-> hysteresis, decay |-> decay]

accumulate_NoHysteresis(cumulative, score, cfg) ==
    Max(0, (cumulative * cfg.decay) \div Scale + score)

accumulate_HysteresisTwice(cumulative, score, cfg) ==
    Max(0, (cumulative * cfg.decay) \div Scale + score - 2 * cfg.hysteresis)

\* cumulative = max(0.0, cumulative * decay + score - hysteresis)
accumulate(cumulative, score, cfg) ==
    Max(0, (cumulative * cfg.decay) \div Scale + score - cfg.hysteresis)

\* _calibrate_probability(cumulative) compared with 0.5: the logistic
\* 1 / (1 + exp(-1.4 * (cumulative - trigger_threshold))) is increasing in
\* cumulative and is 0.5 exactly at cumulative = trigger_threshold; the
\* values here are multiples of 1/Scale (the doubles next to the threshold
\* are followed by float_calibrate_probability)
calibrate_probability(cumulative, cfg) ==
    IF cumulative > cfg.trigger_threshold THEN "above 0.5"
    ELSE IF cumulative = cfg.trigger_threshold THEN "0.5"
    ELSE "below 0.5"

\* _trigger_probability() is 1 / (1 + exp(0)) = 0.5;
\* triggered = probability >= self._trigger_probability()
IsTriggered(probability) == probability \in {"0.5", "above 0.5"}

\* the body of `for row in frame.itertuples()`, rows i..
RECURSIVE DetectRows(_, _, _, _)
DetectRows(b, rows, i, cumulative) ==
    IF i > Len(rows) THEN <<>>
    ELSE LET z_scores == compute_z_scores(b, rows[i])
             score == Max(z_scores["pressure"], Max(z_scores["flow"], z_scores["demand"]))
             cum == accumulate(cumulative, score, DefaultDetectorConfig)
             probability == calibrate_probability(cum, DefaultDetectorConfig)
         IN  << [z_scores |-> z_scores, score |-> score, cumulative |-> cum,
                 triggered |-> IsTriggered(probability),
                 reasons |-> top_reasons(z_scores, max_reasons)] >>
             \o DetectRows(b, rows, i + 1, cum)

\* a mutant of detect: the minimum_support check comes first
DetectOutcome_SupportFirst(b, features, minimum_support) ==
    IF features.raised # "none" THEN [raised |-> features.raised, results |-> <<>>]
    ELSE IF Len(features.rows) < minimum_support
         THEN [raised |-> "ValueError", results |-> <<>>]
    ELSE IF ~b.fitted THEN [raised |-> "RuntimeError", results |-> <<>>]
    ELSE [raised |-> "none", results |-> DetectRows(b, features.rows, 1, 0)]

\* LeakDetector.detect: what it raises, or the results it returns
DetectOutcome(b, features, minimum_support) ==
    IF ~b.fitted THEN [raised |-> "RuntimeError", results |-> <<>>]
    ELSE IF features.raised # "none"
         THEN [raised |-> features.raised, results |-> <<>>]
    ELSE IF Len(features.rows) < minimum_support
         THEN [raised |-> "ValueError", results |-> <<>>]
    ELSE IF \E i \in 1..Len(features.rows) : DividesByZero(b, features.rows[i])
         THEN [raised |-> "ZeroDivisionError", results |-> <<>>]
    ELSE [raised |-> "none", results |-> DetectRows(b, features.rows, 1, 0)]

(***************************************************************************)
(* The inputs: event batches of at most MaxTimestamps timestamps, each     *)
(* timestamp carrying one of three groups of events: one reading of each  *)
(* metric, several readings with a pressure drop and a reversed flow, and  *)
(* a timestamp without a pressure reading.                                 *)
(***************************************************************************)
MaxTimestamps == 2

TimestampGroups ==
    { [pressure |-> <<10>>,    flow |-> <<2>>,  demand |-> <<1>>],
      [pressure |-> <<6, 10>>, flow |-> <<-5>>, demand |-> <<3>>],
      [pressure |-> <<>>,      flow |-> <<2>>,  demand |-> <<1>>] }

EventBatches == UNION {[1..n -> TimestampGroups] : n \in 0..MaxTimestamps}

NoCall == [op |-> "none", raised |-> "none", before |-> NoBaseline,
           events |-> <<>>, rows |-> <<>>, results |-> <<>>, earlier |-> FALSE]

DetectorStart(cfg) ==
    /\ dconfig = cfg
    /\ baseline = NoBaseline
    /\ fitWindow = <<>>
    /\ everFitted = FALSE
    /\ lastCall = NoCall

\* LeakDetector(config)
InitDetect ==
    \E cfg \in [baseline_window : 1..MaxTimestamps, minimum_support : 1..MaxTimestamps] :
        DetectorStart(cfg)

IdleDetect == DetectorStart([baseline_window |-> 60, minimum_support |-> 45])

\* LeakDetector.fit_baseline(events)
fit_baseline(events) ==
    LET frame == events_to_features(events) IN
    /\ IF frame.raised # "none"
       THEN /\ lastCall' = [op |-> "fit_baseline", raised |-> frame.raised,
                            before |-> baseline, events |-> events,
                            rows |-> <<>>, results |-> <<>>, earlier |-> FALSE]
            /\ UNCHANGED <<baseline, fitWindow, everFitted>>
       ELSE IF frame.rows = <<>>
       THEN /\ lastCall' = [op |-> "fit_baseline", raised |-> "ValueError",
                            before |-> baseline, events |-> events,
                            rows |-> <<>>, results |-> <<>>, earlier |-> FALSE]
            /\ UNCHANGED <<baseline, fitWindow, everFitted>>
       ELSE /\ baseline' = BaselineOf(frame.rows, dconfig.baseline_window)
            /\ fitWindow' = WindowOf(frame.rows, dconfig.baseline_window)
            /\ everFitted' = TRUE
            /\ lastCall' = [op |-> "fit_baseline", raised |-> "none",
                            before |-> baseline, events |-> events,
                            rows |-> frame.rows,
                            results |-> <<>>, earlier |-> FALSE]
    /\ UNCHANGED dconfig
    /\ UNCHANGED notDetect

\* the previous call was a detect call that returned results
DetectedJustBefore == lastCall.op = "detect" /\ lastCall.raised = "none"

\* a detect whose cumulative is an attribute that outlives the call
detect_KeepsCumulative(events) ==
    LET frame == events_to_features(events)
        out == DetectOutcome(baseline, frame, dconfig.minimum_support)
        kept == IF DetectedJustBefore /\ lastCall.results # <<>>
                THEN lastCall.results[Len(lastCall.results)].cumulative ELSE 0
    IN
    /\ lastCall' = [op |-> "detect", raised |-> out.raised, before |-> baseline,
                    events |-> events, rows |-> frame.rows,
                    results |-> IF out.raised = "none"
                                THEN DetectRows(baseline, frame.rows, 1, kept)
                                ELSE out.results,
                    earlier |-> DetectedJustBefore]
    /\ UNCHANGED <<dconfig, baseline, fitWindow, everFitted>>
    /\ UNCHANGED notDetect

\* LeakDetector.detect(events)
detect(events) ==
    LET frame == events_to_features(events)
        out == DetectOutcome(baseline, frame, dconfig.minimum_support)
    IN
    /\ lastCall' = [op |-> "detect", raised |-> out.raised, before |-> baseline,
                    events |-> events, rows |-> frame.rows,
                    results |-> out.results, earlier |-> DetectedJustBefore]
    /\ UNCHANGED <<dconfig, baseline, fitWindow, everFitted>>
    /\ UNCHANGED notDetect

(***************************************************************************)
(* ml/detectors/rule_based.py: _top_reasons applied to arbitrary scores    *)
(***************************************************************************)
NotCalled == "not called"

\* z-scores are max(0.0, deviation / std): never negative
ZScoreValues == {0, 50, 120, 300}

\* LeakDetectorConfig.max_reasons, default 3
ReasonLimits == 0..4

ReasonsStart(scores, limit) ==
    /\ rscores = scores
    /\ rlimit = limit
    /\ rout = NotCalled

InitReasons ==
    \E scores \in [{"pressure", "flow", "demand"} -> ZScoreValues], limit \in ReasonLimits :
        ReasonsStart(scores, limit)

IdleReasons == ReasonsStart([m \in {"pressure", "flow", "demand"} |-> 0], max_reasons)

\* reasons = self._top_reasons(scores)
CallTopReasons ==
    /\ rout = NotCalled
    /\ rout' = top_reasons(rscores, rlimit)
    /\ UNCHANGED <<rscores, rlimit>>
    /\ UNCHANGED notReasons

(***************************************************************************)
(* ml/detectors/rule_based.py: the loop of detect over a stream of rows,   *)
(* each row given by its score max(z_scores.values())                      *)
(***************************************************************************)
NoRow == -1

\* the default configuration and the one of test_detector_respects_baseline
DetectorConfigs ==
    { DefaultDetectorConfig,
      [trigger_threshold |-> 400, hysteresis |-> 120, decay |-> 50] }

\* the scores a row may have
RowScores == {0, 100, 179, 181, 320, 321}

\* (s - hysteresis) / (1 - decay) > trigger_threshold, for decay < 1
Sustains(s, cfg) ==
    (s - cfg.hysteresis) * Scale > cfg.trigger_threshold * (Scale - cfg.decay)

MaxRun == 3

\* cumulative = 0.0 before the loop
CusumStart(cfg) ==
    /\ ccfg = cfg
    /\ ccum = 0
    /\ cscore = NoRow
    /\ cmax = 0
    /\ cprob = "below 0.5"
    /\ ctriggered = FALSE
    /\ cwas = FALSE
    /\ crun = 0

InitCusum == \E cfg \in DetectorConfigs : CusumStart(cfg)

IdleCusum == CusumStart(DefaultDetectorConfig)

\* a new detect call: cumulative = 0.0
DetectBegin ==
    /\ cscore # NoRow
    /\ ccum' = 0
    /\ cscore' = NoRow
    /\ cmax' = 0
    /\ cprob' = "below 0.5"
    /\ ctriggered' = FALSE
    /\ cwas' = FALSE
    /\ crun' = 0
    /\ UNCHANGED ccfg
    /\ UNCHANGED notCusum

\* one iteration of `for row in frame.itertuples()`
DetectRow(score) ==
    LET cum == accumulate(ccum, score, ccfg)
        probability == calibrate_probability(cum, ccfg)
    IN  /\ ccum' = cum
        /\ cscore' = score
        /\ cmax' = Max(cmax, score)
        /\ cprob' = probability
        /\ ctriggered' = IsTriggered(probability)
        /\ cwas' = ctriggered
        /\ crun' = IF Sustains(score, ccfg)
                   THEN (IF crun < MaxRun THEN crun + 1 ELSE MaxRun)
                   ELSE 0
        /\ UNCHANGED ccfg
        /\ UNCHANGED notCusum

(***************************************************************************)
(* ml/energy/scheduling.py                                                 *)
(*                                                                         *)
(* Timestamps are minutes since an epoch; demand is in l/s; prices,        *)
(* pressures and the two signals are in units of 1/Scale.  The cost fields *)
(* of a step and of the result are left out: no pump decision depends on   *)
(* them.                                                                   *)
(***************************************************************************)
\* round(x) and round(x, ndigits) of a non-negative quotient num / den:
\* to the nearest integer, a tie to the even one
RoundHalfEven(num, den) ==
    LET q == num \div den
        r == num % den
    IN  IF 2 * r < den THEN q
        ELSE IF 2 * r > den THEN q + 1
        ELSE IF q % 2 = 0 THEN q ELSE q + 1

Min(a, b) == IF a <= b THEN a ELSE b

\* PumpScheduleConfig(), the fields build_schedule reads for a pump decision
DefaultScheduleConfig ==
    [ pump_ids |-> <<"pump_a", "pump_b">>,
      max_parallel_pumps |-> 2,
      min_pressure_kpa |-> 24000,
      nominal_pressure_kpa |-> 28000,
      pressure_slope_kpa |-> 3500,
      demand_weight |-> 60,
      price_weight |-> 40 ]

\* PumpScheduler._hour_floor
hour_floor(timestamp) == timestamp - (timestamp % 60)

\* a normalized tariff: [first |-> the first hour, prices |-> one per hour]
TariffEmpty(tariff) == tariff.prices = <<>>

RECURSIVE SeqMin(_)
SeqMin(q) == IF Len(q) = 1 THEN q[1] ELSE Min(q[1], SeqMin(Tail(q)))

RECURSIVE SeqMax(_)
SeqMax(q) == IF Len(q) = 1 THEN q[1] ELSE Max(q[1], SeqMax(Tail(q)))

\* tariff.loc[start_ts] if start_ts is in the index; otherwise
\* tariff.asof(start_ts), the last price at or before start_ts, and when
\* there is none (NaN) tariff.iloc[-1]
hour_price(tariff, start_ts) ==
    LET k == (start_ts - tariff.first) \div 60 + 1
        n == Len(tariff.prices)
    IN  IF start_ts >= tariff.first /\ k <= n THEN tariff.prices[k]
        ELSE tariff.prices[n]

\* PumpScheduler._expected_pressure
expected_pressure(cfg, demand_signal, pumps_on) ==
    LET load_penalty == (demand_signal * cfg.pressure_slope_kpa) \div Scale
        relief == (pumps_on * cfg.pressure_slope_kpa * 25) \div 100
    IN  cfg.nominal_pressure_kpa - load_penalty + relief

\* round(expected_pressure, 1): a multiple of 0.1
round1(x) == 10 * RoundHalfEven(x, 10)

demand_rule_Always(demand_signal, pumps_desired) == Max(1, pumps_desired)

\* if demand_signal > 0.15: pumps_desired = max(1, pumps_desired)
demand_rule(demand_signal, pumps_desired) ==
    IF demand_signal > 15 THEN Max(1, pumps_desired) ELSE pumps_desired

\* the body of `for point in forecast`
ScheduleStep(cfg, tariff, demand_max, point) ==
    LET start_ts == hour_floor(point.timestamp)
        price == hour_price(tariff, start_ts)
        price_min == SeqMin(tariff.prices)
        price_max == SeqMax(tariff.prices)
        demand_signal == (point.demand_lps * Scale) \div demand_max
        low_price_signal ==
            IF price_max = price_min THEN Scale
            ELSE Scale - ((price - price_min) * Scale) \div (price_max - price_min)
        weighted == demand_signal * cfg.demand_weight + low_price_signal * cfg.price_weight
        scored == Min(cfg.max_parallel_pumps,
                      Max(0, RoundHalfEven(weighted * cfg.max_parallel_pumps, Scale * 100)))
        demanded == demand_rule(demand_signal, scored)
        expected == expected_pressure(cfg, demand_signal, demanded)
        guardrail_triggered == expected < cfg.min_pressure_kpa
        pumps_desired == IF guardrail_triggered THEN Max(1, demanded) ELSE demanded
        reported == IF guardrail_triggered THEN Max(expected, cfg.min_pressure_kpa)
                    ELSE expected
    IN  [ start |-> start_ts,
          end |-> start_ts + 60,
          pump_ids |-> SubSeq(cfg.pump_ids, 1, Min(pumps_desired, Len(cfg.pump_ids))),
          pumps_on |-> pumps_desired,
          expected_pressure_kpa |-> round1(reported),
          price_signal |-> low_price_signal,
          demand_signal |-> demand_signal,
          guardrail_triggered |-> guardrail_triggered,
          pumps_scored |-> scored,
          pumps_demanded |-> demanded ]

RECURSIVE CountBreaches(_)
CountBreaches(steps) ==
    IF steps = <<>> THEN 0
    ELSE (IF Head(steps).guardrail_triggered THEN 1 ELSE 0) + CountBreaches(Tail(steps))

\* PumpScheduler.build_schedule
build_schedule(cfg, forecast, tariff) ==
    IF forecast = <<>>
    THEN [raised |-> "ValueError: forecast required for pump scheduling"]
    ELSE IF TariffEmpty(tariff)
    THEN [raised |-> "ValueError: tariff series is empty"]
    ELSE LET largest == SeqMax([i \in 1..Len(forecast) |-> forecast[i].demand_lps])
             demand_max == IF largest = 0 THEN 1 ELSE largest
             steps == [i \in 1..Len(forecast) |->
                          ScheduleStep(cfg, tariff, demand_max, forecast[i])]
         IN  [ raised |-> "none",
               steps |-> steps,
               pressure_guard_breaches |-> CountBreaches(steps) ]

\* before build_schedule has been called
NoSchedule == [raised |-> "not called"]

MaxHorizon == 2

\* demands of the forecast points, l/s
Demands == {0, 15, 50, 100}

\* forecast points one hour apart, the first at 01:00 or 01:30
Forecasts ==
    { [i \in 1..n |-> [timestamp |-> 60 * i + minute, demand_lps |-> d[i]]] :
        <<n, minute, d>> \in
            {<<n, minute, d>> \in (0..MaxHorizon) \X {0, 30} \X
                                  UNION {[1..m -> Demands] : m \in 0..MaxHorizon} :
                Len(d) = n /\ (n = 0 => minute = 0)} }

\* prices per MWh of the hours of a tariff
Prices == {2000, 3500, 5000}

\* tariffs that start at 01:00 or at 02:00 and cover up to two hours
Tariffs ==
    { [first |-> f, prices |-> p] :
        f \in {60, 120}, p \in UNION {[1..m -> Prices] : m \in 0..2} }

\* pump_ids given to PumpScheduleConfig: the default two pumps, or one
PumpIdLists == {<<"pump_a", "pump_b">>, <<"pump_a">>}

\* pump_ids, max_parallel_pumps and min_pressure_kpa given to
\* PumpScheduleConfig
ScheduleConfigs ==
    { [DefaultScheduleConfig EXCEPT !.pump_ids = ids, !.max_parallel_pumps = m,
                                    !.min_pressure_kpa = p] :
        ids \in PumpIdLists, m \in {0, 1, 2}, p \in {24000, 27000, 28004} }

SchedStart(cfg, forecast, tariff) ==
    /\ sconfig = cfg
    /\ sforecast = forecast
    /\ stariff = tariff
    /\ sresult = NoSchedule

InitSched ==
    \E cfg \in ScheduleConfigs, forecast \in Forecasts, tariff \in Tariffs :
        SchedStart(cfg, forecast, tariff)

IdleSched == SchedStart(DefaultScheduleConfig, <<>>, [first |-> 60, prices |-> <<>>])

\* result = scheduler.build_schedule(forecast, tariff_series)
CallBuildSchedule ==
    /\ sresult = NoSchedule
    /\ sresult' = build_schedule(sconfig, sforecast, stariff)
    /\ UNCHANGED <<sconfig, sforecast, stariff>>
    /\ UNCHANGED notSched

(***************************************************************************)
(* ml/energy/forecasting.py and ml/energy/optimizer.py                     *)
(*                                                                         *)
(* A demand series is given by its readings, one per hour on the hour,     *)
(* the last one at `last` (minutes); demand is in units of 1/Scale l/s and *)
(* confidence in hundredths.  issued_at and time_to_first_action_minutes   *)
(* of the report depend on the clock and are left out.                     *)
(***************************************************************************)
\* DemandForecastConfig()
DefaultForecastConfig ==
    [ horizon_hours |-> 24,
      lookback_hours |-> 72,
      min_history_points |-> 24,
      smoothing_factor |-> 25,
      backcast_hours |-> 6 ]

\* the keyword argument horizon_hours: int | None
NoHorizon == [given |-> FALSE, hours |-> 0]
Hours(h) == [given |-> TRUE, hours |-> h]

\* `horizon_hours or self.config.horizon_hours`: None and 0 are falsy
horizon_or_default(horizon_hours, cfg) ==
    IF horizon_hours.given /\ horizon_hours.hours # 0 THEN horizon_hours.hours
    ELSE cfg.horizon_hours

\* _normalize_series: resample("15T").mean().interpolate(); between two
\* readings an hour apart lie three interpolated samples
Grid15(readings) ==
    LET n == Len(readings)
    IN  [j \in 1..(IF n = 0 THEN 0 ELSE 4 * (n - 1) + 1) |->
            LET k == (j - 1) \div 4 + 1
                q == (j - 1) % 4
            IN  IF q = 0 THEN readings[k]
                ELSE readings[k] + ((readings[k + 1] - readings[k]) * q) \div 4]

\* series.resample("1H").mean(): the mean of the samples of each hour
HourlyMeans(series) ==
    LET n == Len(series)
    IN  [k \in 1..((n + 3) \div 4) |->
            MeanOf(SubSeq(series, 4 * (k - 1) + 1, Min(4 * k, n)))]

\* hourly.index[k].hour, for an hourly series that ends at `last`
HourOfDay(ts) == (ts \div 60) % 24
BucketTime(last, n, k) == last - 60 * (n - k)

\* the values of the hourly series whose hour of the day is hod
SameHour(hourly, last, hod) ==
    SelectSeq([k \in 1..Len(hourly) |->
                  [v |-> hourly[k], hod |-> HourOfDay(BucketTime(last, Len(hourly), k))]],
              LAMBDA e : e.hod = hod)

Values(entries) == [i \in 1..Len(entries) |-> entries[i].v]

\* hourly.groupby(hourly.index.hour).std().fillna(0.0) at one hour
BucketStd(values) ==
    LET std == SampleStd(values) IN IF std.nan THEN 0 ELSE std.v

\* float(hourly.diff().tail(backcast_window).mean() or 0.0): the first
\* difference is NaN and is skipped by mean(); the mean of no value is NaN,
\* which `or` keeps
trend_of(hourly, backcast_window) ==
    LET n == Len(hourly)
        from == Max(2, n - backcast_window + 1)
        diffs == [i \in 1..(n - from + 1) |-> hourly[from + i - 1] - hourly[from + i - 2]]
    IN  IF diffs = <<>> THEN NaN ELSE Num(MeanOf(diffs))

\* DemandForecaster._confidence
confidence_of(demand, std) ==
    IF demand <= 0 THEN 50
    ELSE LET ratio == (std * 100) \div demand
         IN  Max(50, Min(99, 100 - Min(50, ratio)))

\* the body of `for hour_offset in range(1, horizon + 1)`
ForecastPointAt(cfg, hourly, last, trend, hour_offset) ==
    LET ts == last + 60 * hour_offset
        seen == SameHour(hourly, last, HourOfDay(ts))
        baseline_value == hourly[Len(hourly)]
        seasonal == IF seen = <<>> THEN baseline_value ELSE MeanOf(Values(seen))
        smoothed == (cfg.smoothing_factor * seasonal
                     + (Scale - cfg.smoothing_factor) * baseline_value) \div Scale
        trend_adjusted == smoothed + (trend.v * Min(hour_offset, cfg.backcast_hours)) \div 2
        demand == IF trend.nan THEN 0 ELSE Max(0, trend_adjusted)
        hours_seen == {HourOfDay(BucketTime(last, Len(hourly), k)) : k \in 1..Len(hourly)}
        std == IF seen # <<>> THEN BucketStd(Values(seen))
               ELSE SumSeq([k \in 1..Len(hourly) |->
                              IF \A j \in 1..(k - 1) :
                                     HourOfDay(BucketTime(last, Len(hourly), j))
                                         # HourOfDay(BucketTime(last, Len(hourly), k))
                              THEN BucketStd(Values(SameHour(hourly, last,
                                        HourOfDay(BucketTime(last, Len(hourly), k)))))
                              ELSE 0])
                    \div Cardinality(hours_seen)
    IN  [timestamp |-> ts, demand_lps |-> demand, confidence |-> confidence_of(demand, std)]

\* DemandForecaster.forecast
forecast(cfg, history, horizon_hours) ==
    IF history.readings = <<>> THEN [raised |-> "ValueError: empty demand series"]
    ELSE LET series == Grid15(history.readings)
         IN  IF Len(series) < cfg.min_history_points
             THEN [raised |-> "ValueError: insufficient demand history for forecasting"]
             ELSE LET all_hours == HourlyMeans(series)
                      lookback_hours == Min(cfg.lookback_hours, Len(all_hours))
                      hourly == SubSeq(all_hours, Len(all_hours) - lookback_hours + 1,
                                       Len(all_hours))
                      trend == trend_of(hourly, Min(cfg.backcast_hours, Len(hourly)))
                      horizon == horizon_or_default(horizon_hours, cfg)
                  IN  [ raised |-> "none",
                        points |-> [hour_offset \in 1..horizon |->
                                       ForecastPointAt(cfg, hourly, history.last, trend,
                                                       hour_offset)] ]

\* EnergyOptimizer._roi_confidence, in thousandths
roi_confidence(points) == 500 + Min(450, RoundHalfEven(Len(points) * 1000, 240))

\* EnergyOptimizer.optimize
optimize(fcfg, scfg, history, tariff, horizon_hours) ==
    LET forecasted == forecast(fcfg, history, horizon_hours)
    IN  IF forecasted.raised # "none" THEN forecasted
        ELSE LET schedule == build_schedule(scfg, forecasted.points, tariff)
             IN  IF schedule.raised # "none" THEN schedule
                 ELSE [ raised |-> "none",
                        horizon_hours |-> horizon_or_default(horizon_hours, fcfg),
                        forecast |-> forecasted.points,
                        schedule |-> schedule,
                        roi_confidence |-> roi_confidence(forecasted.points),
                        pressure_guard_breaches |-> schedule.pressure_guard_breaches ]

\* demand histories that end at 23:00
Histories ==
    { [last |-> 1380, readings |-> r] :
        r \in { <<>>,
                <<1000>>,
                <<1000, 1800, 1000>>,
                <<1000, 1000, 1000, 1000, 1000, 1000, 1000>>,
                <<1000, 1800, 2600, 3400, 4200, 5000, 5800>>,
                <<5800, 5000, 4200, 3400, 2600, 1800, 1000>>,
                <<1000, 1800, 1000, 1800, 1000, 1800, 1000, 1800>> } }

\* tariffs that start at the first forecast hour
ReportTariffs ==
    { [first |-> 1440, prices |-> p] :
        p \in UNION {[1..m -> {2000, 5000}] : m \in 0..2} }

\* horizon_hours: omitted, or an integer 0..MaxHorizon + 1
Horizons == {NoHorizon} \cup {Hours(h) : h \in 0..(MaxHorizon + 1)}

NoEnergyCall == [op |-> "none", raised |-> "not called"]

EnergyStart(history, tariff, horizon_hours) ==
    /\ ehistory = history
    /\ etariff = tariff
    /\ ehorizon = horizon_hours
    /\ eout = NoEnergyCall

InitEnergy ==
    \E history \in Histories, tariff \in ReportTariffs, horizon_hours \in Horizons :
        EnergyStart(history, tariff, horizon_hours)

IdleEnergy == EnergyStart([last |-> 1380, readings |-> <<>>],
                          [first |-> 1440, prices |-> <<>>], NoHorizon)

\* points = DemandForecaster().forecast(demand_series, horizon_hours=...)
CallForecast ==
    /\ eout = NoEnergyCall
    /\ eout' = [op |-> "forecast"] @@ forecast(DefaultForecastConfig, ehistory, ehorizon)
    /\ UNCHANGED <<ehistory, etariff, ehorizon>>
    /\ UNCHANGED notEnergy

\* report = EnergyOptimizer().optimize(demand_series, tariff_series, horizon_hours=...)
CallOptimize ==
    /\ eout = NoEnergyCall
    /\ eout' = [op |-> "optimize"]
                  @@ optimize(DefaultForecastConfig, DefaultScheduleConfig,
                              ehistory, etariff, ehorizon)
    /\ UNCHANGED <<ehistory, etariff, ehorizon>>
    /\ UNCHANGED notEnergy

(***************************************************************************)
(* backend/app.py: /isolation/plan, /isolation/execute, /isolation/rollback *)
(*                                                                         *)
(* Requests are served one at a time.  _planner.plan has only local state; *)
(* the body of the plan response is the plan modelled by SpecPlan.         *)
(***************************************************************************)
\* IsolationExecuteRequest.approved_by: str | None = None
NoApprover == [given |-> FALSE, name |-> ""]
ApprovedBy(name) == [given |-> TRUE, name |-> name]

approval_provided_Always(approved_by) == TRUE

\* approval_provided = payload.approved_by is not None
approval_provided(approved_by) == approved_by.given

\* `payload.approved_by or fallback`: None and "" are falsy
performed_by(approved_by, fallback) ==
    IF approved_by.given /\ approved_by.name # "" THEN approved_by.name ELSE fallback

\* the IsolationAction rows added for payload.valve_ids
ActionsFor(valve_ids, action, by) ==
    [i \in 1..Len(valve_ids) |->
        [valve_id |-> valve_ids[i], action |-> action, status |-> "completed",
         performed_by |-> by]]

\* `for status in targets: try: _state_machine.transition(status)
\*  except ValueError: continue`: the changes of status made, in order
RECURSIVE TryTransitions(_, _)
TryTransitions(cur, targets) ==
    IF targets = <<>> THEN <<>>
    ELSE IF TransitionAllowed(cur, Head(targets))
         THEN <<[from |-> cur, to |-> Head(targets)]>>
              \o TryTransitions(Head(targets), Tail(targets))
         ELSE TryTransitions(cur, Tail(targets))

StatusAfterChanges(cur, changes) ==
    IF changes = <<>> THEN cur ELSE changes[Len(changes)].to

MaxActions == 3

NoRequest ==
    [handler |-> "none", approved_by |-> NoApprover, valve_ids |-> <<>>,
     before |-> "NORMAL", actions_before |-> <<>>, code |-> 0, changes |-> <<>>]

\* the payloads of /isolation/execute and /isolation/rollback
ValveIdLists == {<<>>, <<"V_J1_J2">>, <<"V_J1_J2", "V_J2_J3">>}
Approvers == {NoApprover, ApprovedBy(""), ApprovedBy("operator")}

InitApi ==
    /\ astatus = "NORMAL"
    /\ aactions = <<>>
    /\ alast = NoRequest

IdleApi == InitApi

Served(handler, approved_by, valve_ids, code, changes) ==
    alast' = [handler |-> handler, approved_by |-> approved_by, valve_ids |-> valve_ids,
              before |-> astatus, actions_before |-> aactions, code |-> code,
              changes |-> changes]

\* POST /isolation/plan
plan_isolation ==
    LET changes == TryTransitions(astatus, <<"SUSPECTED", "ISOLATING">>)
    IN  /\ astatus' = StatusAfterChanges(astatus, changes)
        /\ Served("plan", NoApprover, <<>>, 200, changes)
        /\ UNCHANGED aactions
        /\ UNCHANGED notApi

\* POST /isolation/execute
execute_isolation(approved_by, valve_ids) ==
    /\ approval_provided(approved_by) => Len(aactions) + Len(valve_ids) <= MaxActions
    /\ IF ~approval_provided(approved_by)
       THEN /\ Served("execute", approved_by, valve_ids, 400, <<>>)
            /\ UNCHANGED <<astatus, aactions>>
       ELSE LET changes == TryTransitions(astatus, <<"ISOLATED">>)
            IN  /\ aactions' = aactions \o ActionsFor(valve_ids, "close",
                                                       performed_by(approved_by, "unknown"))
                /\ astatus' = StatusAfterChanges(astatus, changes)
                /\ Served("execute", approved_by, valve_ids, 200, changes)
    /\ UNCHANGED notApi

\* POST /isolation/rollback
rollback_isolation(approved_by, valve_ids) ==
    LET changes == TryTransitions(astatus, <<"RECOVERY", "NORMAL">>)
    IN  /\ Len(aactions) + Len(valve_ids) <= MaxActions
        /\ aactions' = aactions \o ActionsFor(valve_ids, "open",
                                               performed_by(approved_by, "system"))
        /\ astatus' = StatusAfterChanges(astatus, changes)
        /\ Served("rollback", approved_by, valve_ids, 200, changes)
        /\ UNCHANGED notApi

(***************************************************************************)
(* agents/bus.py, agents/agents.py, agents/orchestrator.py,                *)
(* agents/policies.py                                                      *)
(*                                                                         *)
(* EventBus.publish calls its listeners synchronously, so a handler that   *)
(* emits runs the whole delivery of the emitted event before its next      *)
(* line.  bstack holds one frame per publish call in progress: the event,  *)
(* the listeners not yet called, and where the listener being called       *)
(* stands (pc).  Probabilities are in thousandths, savings in hundredths,  *)
(* chaos_chance in hundredths; the timestamp of an event is left out.      *)
(***************************************************************************)
\* DEFAULT_POLICY
DEFAULT_POLICY ==
    [ leak_detect |-> [trigger_threshold |-> 600],
      planner |-> [max_hops |-> 3, max_radius_m |-> 500],
      energy_opt |-> [min_savings_pct |-> 1200],
      actuator |-> [require_approval |-> TRUE, auto_execute |-> FALSE],
      watcher |-> [chaos_chance |-> 5, safe_mode_on_failure |-> TRUE, max_radius_m |-> 600] ]

\* self.policy.get(key, default)
PolicyGet(policy, key, default) == IF key \in DOMAIN policy THEN policy[key] ELSE default

AgentEvent(type, payload, source) == [type |-> type, payload |-> payload, source |-> source]

\* the agents in the order run_episode creates them, with their subscriptions
AgentOrder == <<"LeakDetect", "Planner", "EnergyOpt", "Actuator", "Watcher">>

subscriptions(agent) ==
    CASE agent = "LeakDetect" -> {"telemetry.window"}
      [] agent = "Planner"    -> {"alert.leak"}
      [] agent = "EnergyOpt"  -> {"alert.leak"}
      [] agent = "Actuator"   -> {"plan.isolation"}
      [] agent = "Watcher"    -> {"*"}

\* list(self._subscribers.get(event.type, [])) + list(self._subscribers.get("*", []))
Listeners(type) ==
    SelectSeq(AgentOrder, LAMBDA a : type \in subscriptions(a))
        \o SelectSeq(AgentOrder, LAMBDA a : "*" \in subscriptions(a))

Frame(event) == [event |-> event, listeners |-> Listeners(event.type), pc |-> "dispatch"]

\* the plans IsolationPlanner.plan may return, over the orders in which the
\* neighbour sets may be iterated
RECURSIVE PlanOutcomes(_, _, _, _, _)
PlanOutcomes(g, max_hops, q, seen, vh) ==
    IF q = <<>> THEN {vh}
    ELSE LET node == Head(q)[1]
             hops == Head(q)[2]
             rest == Tail(q)
         IN  IF hops > max_hops \/ AlreadyVisited(node, seen)
             THEN PlanOutcomes(g, max_hops, rest, seen, vh)
             ELSE UNION { LET out == ExpandNode(g, max_hops, node, hops, order, 1, vh, rest)
                          IN  PlanOutcomes(g, max_hops, out[2], seen \cup {node}, out[1]) :
                          order \in Orderings(neighbors(g, node)) }

PlannedSteps(g, cfg, start_node, end_node) ==
    { StepsOf(rank_valves(cfg.policy,
                          [i \in 1..Len(vh) |-> ValveById(g, vh[i].id)])) :
        vh \in PlanOutcomes(g, cfg.max_hops,
                            << <<start_node, 0>>, <<end_node, 0>> >>, {}, <<>>) }

\* LeakDetectAgent.handle: the alert.leak payload
LeakAlert(policy, window) ==
    LET score == 45 * window.pressure_drop_kpa + 35 * window.flow_delta_lps
                 + 20 * window.demand_delta_lps
        probability == Max(10, Min(990, score))
        threshold == PolicyGet(policy, "trigger_threshold", 600)
    IN  [probability |-> probability, triggered |-> probability >= threshold,
         entity_id |-> window.entity_id]

\* PlannerAgent.handle: the plan.isolation payload for the steps of a plan
PlanPayload(policy, steps) ==
    [leak_pipe_id |-> "P_J2_J3",
     steps |-> [i \in 1..Len(steps) |->
                   [valve_id |-> steps[i].valve_id,
                    customers |-> steps[i].customers_affected,
                    loss_rate_lps |-> steps[i].loss_rate_lps]],
     radius_m |-> PolicyGet(policy, "max_radius_m", 500)]

\* EnergyOptAgent.handle: the energy.plan payload
EnergyPlan(policy, alert) ==
    [savings_pct |-> Max(PolicyGet(policy, "min_savings_pct", 1200), alert.probability * 2),
     pressure_guard |-> 0]

ActuatorApproves_AutoExecuteOnly(policy) == PolicyGet(policy, "auto_execute", FALSE)

\* the else branch of `if require_approval or not auto_execute`
ActuatorApproves(policy) ==
    ~(PolicyGet(policy, "require_approval", TRUE) \/ ~PolicyGet(policy, "auto_execute", FALSE))

\* ActuatorAgent.handle: the event it emits for a plan.isolation payload
Actuation(policy, plan) ==
    IF ~ActuatorApproves(policy)
    THEN AgentEvent("actuation.pending",
                    [reason |-> "approval-required", leak_pipe_id |-> plan.leak_pipe_id],
                    "Actuator")
    ELSE AgentEvent("actuation.approved",
                    [leak_pipe_id |-> plan.leak_pipe_id,
                     valves |-> [i \in 1..Len(plan.steps) |-> plan.steps[i].valve_id]],
                    "Actuator")

\* the outcomes of `self._rng.random() < chaos_chance`, random() in [0, 1)
ChaosOutcomes(chaos_chance) ==
    IF chaos_chance <= 0 THEN {FALSE}
    ELSE IF chaos_chance >= 100 THEN {TRUE}
    ELSE BOOLEAN

SafeModeTriggers_Always(safe_mode) == TRUE

\* `if self._safe_mode: return` at the head of _trigger_safe_mode
SafeModeTriggers(safe_mode) == ~safe_mode

SafeModeEvent(reason) ==
    AgentEvent("system.mode", [mode |-> "safe", reason |-> reason], "Watcher")

\* the telemetry windows given to run_episode: the default snapshot, a calm
\* window and an empty one (every key missing reads as 0.0 / "zone-1")
Windows ==
    { [entity_id |-> "zone-1", pressure_drop_kpa |-> 8, flow_delta_lps |-> 7,
       demand_delta_lps |-> 4],
      [entity_id |-> "zone-1", pressure_drop_kpa |-> 1, flow_delta_lps |-> 1,
       demand_delta_lps |-> 1],
      [entity_id |-> "zone-1", pressure_drop_kpa |-> 0, flow_delta_lps |-> 0,
       demand_delta_lps |-> 0] }

\* the actuator settings a policy may hold; a missing key reads as its default
ActuatorPolicies ==
    UNION { [keys -> BOOLEAN] : keys \in SUBSET {"require_approval", "auto_execute"} }

WatcherPolicies ==
    [chaos_chance : {0, 5, 100}, safe_mode_on_failure : BOOLEAN, max_radius_m : {400, 600}]

EpisodePolicies ==
    { [DEFAULT_POLICY EXCEPT !.actuator = a, !.watcher = w] :
        a \in ActuatorPolicies, w \in WatcherPolicies }

AgentsStart(policy, window) ==
    /\ bpolicy = policy
    /\ bwindow = window
    /\ bhistory = <<>>
    /\ bstack = <<>>
    /\ bsafe = FALSE
    /\ bdelivered = <<>>
    /\ bphase = "start"

InitAgents == \E policy \in EpisodePolicies, window \in Windows : AgentsStart(policy, window)

IdleAgents ==
    AgentsStart(DEFAULT_POLICY,
                [entity_id |-> "zone-1", pressure_drop_kpa |-> 8, flow_delta_lps |-> 7,
                 demand_delta_lps |-> 4])

Top == bstack[Len(bstack)]
Below == SubSeq(bstack, 1, Len(bstack) - 1)

\* the listener the innermost publish call is about to call
Calling(agent) ==
    /\ bphase = "running"
    /\ bstack # <<>>
    /\ Top.pc = "dispatch"
    /\ Top.listeners # <<>>
    /\ Head(Top.listeners) = agent

\* callback(event) in publish: the listener is entered
Delivered(agent) == bdelivered' = Append(bdelivered, [agent |-> agent, event |-> Top.event])

\* the stack once the listener being called has returned
ListenerDone == Below \o <<[Top EXCEPT !.listeners = Tail(@), !.pc = "dispatch"]>>

\* self.emit(type, payload) as the last statement of a handler
EmitLast(event) ==
    /\ bhistory' = Append(bhistory, event)
    /\ bstack' = ListenerDone \o <<Frame(event)>>

\* self.emit(type, payload) followed by more of the handler, resumed at pc
EmitThen(event, pc) ==
    /\ bhistory' = Append(bhistory, event)
    /\ bstack' = Below \o <<[Top EXCEPT !.pc = pc]>> \o <<Frame(event)>>

\* bus.publish(AgentEvent(type="telemetry.window", ...)) in run_episode
PublishWindow ==
    /\ bphase = "start"
    /\ bphase' = "running"
    /\ LET event == AgentEvent("telemetry.window", bwindow, "orchestrator")
       IN  /\ bhistory' = Append(bhistory, event)
           /\ bstack' = <<Frame(event)>>
    /\ UNCHANGED <<bpolicy, bwindow, bsafe, bdelivered>>
    /\ UNCHANGED notAgents

\* LeakDetectAgent.handle
LeakDetectHandle ==
    /\ Calling("LeakDetect")
    /\ Delivered("LeakDetect")
    /\ EmitLast(AgentEvent("alert.leak", LeakAlert(bpolicy.leak_detect, Top.event.payload),
                           "LeakDetect"))
    /\ UNCHANGED <<bpolicy, bwindow, bsafe, bphase>>
    /\ UNCHANGED notAgents

\* PlannerAgent.handle
PlannerHandle ==
    /\ Calling("Planner")
    /\ Delivered("Planner")
    /\ IF ~Top.event.payload.triggered
       THEN /\ bstack' = ListenerDone
            /\ UNCHANGED bhistory
       ELSE \E steps \in PlannedSteps(SampleGraph,
                                      [policy |-> MINIMIZE_CUSTOMERS,
                                       max_hops |-> PolicyGet(bpolicy.planner, "max_hops", 3)],
                                      "J2", "J3") :
                EmitLast(AgentEvent("plan.isolation", PlanPayload(bpolicy.planner, steps),
                                    "Planner"))
    /\ UNCHANGED <<bpolicy, bwindow, bsafe, bphase>>
    /\ UNCHANGED notAgents

\* EnergyOptAgent.handle
EnergyOptHandle ==
    /\ Calling("EnergyOpt")
    /\ Delivered("EnergyOpt")
    /\ EmitLast(AgentEvent("energy.plan", EnergyPlan(bpolicy.energy_opt, Top.event.payload),
                           "EnergyOpt"))
    /\ UNCHANGED <<bpolicy, bwindow, bsafe, bphase>>
    /\ UNCHANGED notAgents

\* ActuatorAgent.handle
ActuatorHandle ==
    /\ Calling("Actuator")
    /\ Delivered("Actuator")
    /\ EmitLast(Actuation(bpolicy.actuator, Top.event.payload))
    /\ UNCHANGED <<bpolicy, bwindow, bsafe, bphase>>
    /\ UNCHANGED notAgents

\* WatcherAgent.handle, the radius check; _trigger_safe_mode emits
\* system.mode unless the watcher is in safe mode already
WatcherRadius ==
    /\ Calling("Watcher")
    /\ Delivered("Watcher")
    /\ IF /\ Top.event.type = "plan.isolation"
          /\ Top.event.payload.radius_m > PolicyGet(bpolicy.watcher, "max_radius_m", 600)
          /\ SafeModeTriggers(bsafe)
       THEN EmitThen(SafeModeEvent("radius-breach"), "radius-set")
       ELSE /\ bstack' = Below \o <<[Top EXCEPT !.pc = "chaos"]>>
            /\ UNCHANGED bhistory
    /\ UNCHANGED <<bpolicy, bwindow, bsafe, bphase>>
    /\ UNCHANGED notAgents

\* `self._safe_mode = True` at the end of _trigger_safe_mode
WatcherSafeModeSet ==
    /\ bphase = "running"
    /\ bstack # <<>>
    /\ Top.pc \in {"radius-set", "chaos-set"}
    /\ bsafe' = TRUE
    /\ bstack' = Below \o <<[Top EXCEPT !.pc = IF Top.pc = "radius-set" THEN "chaos"
                                                                          ELSE "mode"]>>
    /\ UNCHANGED <<bpolicy, bwindow, bhistory, bdelivered, bphase>>
    /\ UNCHANGED notAgents

\* WatcherAgent.handle, the chaos check
WatcherChaos ==
    /\ bphase = "running"
    /\ bstack # <<>>
    /\ Top.pc = "chaos"
    /\ \E hit \in ChaosOutcomes(PolicyGet(bpolicy.watcher, "chaos_chance", 0)) :
           IF Top.event.type = "actuation.approved" /\ hit
           THEN EmitThen(AgentEvent("chaos.injected",
                                    [reason |-> "simulated actuator fault",
                                     original_event |-> Top.event.payload],
                                    "Watcher"),
                         "failure")
           ELSE /\ bstack' = Below \o <<[Top EXCEPT !.pc = "mode"]>>
                /\ UNCHANGED bhistory
    /\ UNCHANGED <<bpolicy, bwindow, bsafe, bdelivered, bphase>>
    /\ UNCHANGED notAgents

\* `if self.policy.get("safe_mode_on_failure", True): self._trigger_safe_mode("chaos")`
WatcherFailure ==
    /\ bphase = "running"
    /\ bstack # <<>>
    /\ Top.pc = "failure"
    /\ IF PolicyGet(bpolicy.watcher, "safe_mode_on_failure", TRUE) /\ SafeModeTriggers(bsafe)
       THEN EmitThen(SafeModeEvent("chaos"), "chaos-set")
       ELSE /\ bstack' = Below \o <<[Top EXCEPT !.pc = "mode"]>>
            /\ UNCHANGED bhistory
    /\ UNCHANGED <<bpolicy, bwindow, bsafe, bdelivered, bphase>>
    /\ UNCHANGED notAgents

\* WatcherAgent.handle, its last statement, and the return of the handler
WatcherMode ==
    /\ bphase = "running"
    /\ bstack # <<>>
    /\ Top.pc = "mode"
    /\ bsafe' = IF Top.event.type = "system.mode" /\ Top.event.payload.mode = "safe"
                THEN TRUE ELSE bsafe
    /\ bstack' = ListenerDone
    /\ UNCHANGED <<bpolicy, bwindow, bhistory, bdelivered, bphase>>
    /\ UNCHANGED notAgents

\* publish returns once every listener was called; the outermost return
\* is followed by `return list(bus.history())`
PublishReturn ==
    /\ bphase = "running"
    /\ bstack # <<>>
    /\ Top.pc = "dispatch"
    /\ Top.listeners = <<>>
    /\ bstack' = Below
    /\ bphase' = IF Len(bstack) = 1 THEN "returned" ELSE "running"
    /\ UNCHANGED <<bpolicy, bwindow, bhistory, bsafe, bdelivered>>
    /\ UNCHANGED notAgents

(***************************************************************************)
(* agents/orchestrator.py and agents/policies.py: run_episode called       *)
(* several times in one process.  A policy is the value of its "agents"    *)
(* key.  load_policy(None) returns the module-level dict itself, not a     *)
(* copy, so what run_episode writes into the policy it loaded is written   *)
(* into mdefault; a policy loaded from a file is built from new dicts.     *)
(* The policy files given exist.                                           *)
(***************************************************************************)
\* {**defaults, **overrides}
Merge(defaults, overrides) ==
    [k \in (DOMAIN defaults) \cup (DOMAIN overrides) |->
        IF k \in DOMAIN overrides THEN overrides[k] ELSE defaults[k]]

\* policy_path = None, and a policy file given by what it holds under "agents"
NoPath == [given |-> FALSE]
PolicyFile(agents) == [given |-> TRUE, agents |-> agents]

\* chaos_override = None, and chaos_override = c (in hundredths)
NoOverride == [given |-> FALSE]
Override(c) == [given |-> TRUE, value |-> c]

\* load_policy(path), default the value of DEFAULT_POLICY when it is called
load_policy(default, path) ==
    IF ~path.given THEN default
    ELSE [agent_name \in DOMAIN default |->
             Merge(default[agent_name],
                   IF agent_name \in DOMAIN path.agents THEN path.agents[agent_name]
                                                        ELSE <<>>)]

\* policy["agents"].setdefault("watcher", {})["chaos_chance"] = chaos_override
WithOverride(policy, chaos_override) ==
    IF chaos_override.given
    THEN [policy EXCEPT !.watcher = Merge(@, [chaos_chance |-> chaos_override.value])]
    ELSE policy

\* the dict DEFAULT_POLICY once run_episode has written the override into policy
DefaultAfter(default, policy, path) == IF path.given THEN default ELSE policy

\* `telemetry_window or {...}`
NoWindow == [given |-> FALSE]
DefaultSnapshot ==
    [entity_id |-> "zone-1", pressure_drop_kpa |-> 8, flow_delta_lps |-> 7,
     demand_delta_lps |-> 4]
Snapshot(telemetry_window) ==
    IF telemetry_window.given THEN telemetry_window.window ELSE DefaultSnapshot

MaxEpisodes == 2

\* the policy files: what they say for the actuator and for the watcher
ActuatorFiles ==
    { <<>>, [require_approval |-> FALSE, auto_execute |-> TRUE] }
WatcherFiles ==
    { <<>>,
      [chaos_chance |-> 0, safe_mode_on_failure |-> TRUE],
      [chaos_chance |-> 0, safe_mode_on_failure |-> TRUE, max_radius_m |-> 400],
      [safe_mode_on_failure |-> FALSE],
      [chaos_chance |-> 100, max_radius_m |-> 400] }
PolicyPaths ==
    {NoPath} \cup { PolicyFile([actuator |-> a, watcher |-> w]) :
                      a \in ActuatorFiles, w \in WatcherFiles }
ChaosOverrides == {NoOverride, Override(0), Override(100)}
TelemetryWindows ==
    {NoWindow,
     [given |-> TRUE,
      window |-> [entity_id |-> "zone-1", pressure_drop_kpa |-> 1, flow_delta_lps |-> 1,
                  demand_delta_lps |-> 1]]}

\* the process after `import aware.agents`: no episode was run
InitEpisodes ==
    /\ mdefault = DEFAULT_POLICY
    /\ bpath = NoPath
    /\ boverride = NoOverride
    /\ bruns = 0
    /\ bpolicy = DEFAULT_POLICY
    /\ bwindow = DefaultSnapshot
    /\ bhistory = <<>>
    /\ bstack = <<>>
    /\ bsafe = FALSE
    /\ bdelivered = <<>>
    /\ bphase = "imported"

IdleEpisodes ==
    /\ mdefault = DEFAULT_POLICY
    /\ bpath = NoPath
    /\ boverride = NoOverride
    /\ bruns = 0

\* run_episode, up to the creation of the agents: a new bus and new agents,
\* each agent holding its own entry of the loaded policy
run_episode(policy_path, telemetry_window, chaos_override) ==
    /\ bphase \in {"imported", "returned"}
    /\ bruns < MaxEpisodes
    /\ LET policy == WithOverride(load_policy(mdefault, policy_path), chaos_override)
       IN  /\ bpolicy' = policy
           /\ mdefault' = DefaultAfter(mdefault, policy, policy_path)
    /\ bpath' = policy_path
    /\ boverride' = chaos_override
    /\ bruns' = bruns + 1
    /\ bwindow' = Snapshot(telemetry_window)
    /\ bhistory' = <<>>
    /\ bstack' = <<>>
    /\ bsafe' = FALSE
    /\ bdelivered' = <<>>
    /\ bphase' = "start"
    /\ UNCHANGED notEpisodes

(***************************************************************************)
(* ml/detectors/rule_based.py: _calibrate_probability and                  *)
(* _trigger_probability evaluated in IEEE 754 double arithmetic, round to  *)
(* nearest, ties to even.                                                  *)
(*                                                                         *)
(* Lengths are in units of 2^-54, a quarter of the spacing of the doubles  *)
(* between 1 and 2; the exponent and what follows it are in tenths of that *)
(* unit, so that the factor 1.4 stays exact.  A cumulative value is given  *)
(* by the multiple of 1/Scale next to it and its distance from it in       *)
(* doubles: [grid, ulps].  GridStep stands for 1/Scale in units of 2^-54;  *)
(* only its being larger than every rounding distance is used.  For an     *)
(* exponent x this small, exp(x) is the double nearest to 1 + x.           *)
(***************************************************************************)
GridStep == 1000000

\* the thresholds 0.3, 0.6, 1.5, 2.5 and 6.0 with the spacing of doubles there
FloatThresholds ==
    { [trigger_threshold |-> 30, ulp |-> 1], [trigger_threshold |-> 60, ulp |-> 2],
      [trigger_threshold |-> 150, ulp |-> 4], [trigger_threshold |-> 250, ulp |-> 8],
      [trigger_threshold |-> 600, ulp |-> 16] }

\* cumulative - beta; the difference of two doubles this close is exact
Offset(cumulative, cfg) ==
    (cumulative.grid - cfg.trigger_threshold) * GridStep + cumulative.ulps * cfg.ulp

\* -alpha * (cumulative - beta), alpha = 1.4, in tenths
\* a calibration centred ten steps of 1/Scale above the threshold
Exponent_Uncentred(cumulative, cfg) == -14 * (Offset(cumulative, cfg) - 10 * GridStep)

Exponent(cumulative, cfg) == -14 * Offset(cumulative, cfg)

\* exp(x) - 1: doubles are 40 tenths apart above 1.0 and 20 below
ExpMinusOne(x) ==
    IF x >= 0 THEN 40 * RoundHalfEven(x, 40) ELSE -(20 * RoundHalfEven(-x, 20))

\* (1.0 + e) - 2: doubles are 80 tenths apart above 2.0 and 40 below
SumMinusTwo(e) ==
    IF e >= 0 THEN 80 * RoundHalfEven(e, 80) ELSE -(40 * RoundHalfEven(-e, 40))

\* 1.0 / s compared with 0.5: 1.0 / 2.0 is 0.5, a larger s gives less, a
\* smaller s more
Reciprocal(s) == IF s > 0 THEN "below 0.5" ELSE IF s = 0 THEN "0.5" ELSE "above 0.5"

\* return 1.0 / (1.0 + exp(-alpha * (cumulative - beta)))
float_calibrate_probability(cumulative, cfg) ==
    Reciprocal(SumMinusTwo(ExpMinusOne(Exponent(cumulative, cfg))))

\* _trigger_probability(): 1.0 / (1.0 + exp(-alpha * 0.0))
trigger_probability == Reciprocal(SumMinusTwo(ExpMinusOne(0)))

\* probability >= self._trigger_probability()
AtLeast(probability, cutoff) ==
    \/ probability = "above 0.5"
    \/ probability = "0.5" /\ cutoff \in {"0.5", "below 0.5"}
    \/ probability = "below 0.5" /\ cutoff = "below 0.5"

MaxUlps == 4

\* the cumulative values within one step of 1/Scale and MaxUlps doubles of
\* the threshold
FloatCumulatives(cfg) ==
    [grid : {cfg.trigger_threshold - 1, cfg.trigger_threshold, cfg.trigger_threshold + 1},
     ulps : -MaxUlps..MaxUlps]

CalibStart(cfg) ==
    /\ kcfg = cfg
    /\ kcum = [grid |-> 0, ulps |-> 0]
    /\ kprob = NotCalled
    /\ ktriggered = FALSE

InitCalib == \E cfg \in FloatThresholds : CalibStart(cfg)

IdleCalib == CalibStart([trigger_threshold |-> 250, ulp |-> 8])

\* lines 74-75 of detect for one row
CalibrateRow(cumulative) ==
    LET probability == float_calibrate_probability(cumulative, kcfg)
    IN  /\ kcum' = cumulative
        /\ kprob' = probability
        /\ ktriggered' = AtLeast(probability, trigger_probability)
        /\ UNCHANGED kcfg
        /\ UNCHANGED notCalib

(***************************************************************************)
(* Properties of the isolation state machine                               *)
(***************************************************************************)
\* the seven legal pairs, as the specification's table lists them
LegalPairs ==
    { <<"NORMAL", "SUSPECTED">>, <<"SUSPECTED", "ISOLATING">>,
      <<"SUSPECTED", "NORMAL">>, <<"ISOLATING", "ISOLATED">>,
      <<"ISOLATING", "RECOVERY">>, <<"ISOLATED", "RECOVERY">>,
      <<"RECOVERY", "NORMAL">> }

\* the status right after the i-th call of hist
StatusAfter(i) == IF i < Len(hist) THEN hist[i + 1].from ELSE status

\* C1: a new machine is in NORMAL; transition(new_status) succeeds exactly
\* when (status, new_status) is one of the seven legal pairs; on success the
\* status becomes new_status and is returned; otherwise (every
\* self-transition included) it raises, the status is unchanged, and a
\* following call with a different, legal target succeeds.
C1_TransitionContract ==
    /\ (hist = <<>>) => status = "NORMAL"
    /\ (hist # <<>>) => hist[1].from = "NORMAL"
    /\ \A i \in 1..Len(hist) :
         LET call == hist[i] IN
         /\ (call.raised = "none") <=> (<<call.from, call.target>> \in LegalPairs)
         /\ (call.raised = "none") =>
                /\ call.returned = call.target
                /\ StatusAfter(i) = call.target
         /\ (call.raised # "none") =>
                /\ call.raised = "ValueError"
                /\ call.returned = "none"
                /\ StatusAfter(i) = call.from
                /\ call.from = call.target => call.raised = "ValueError"
                /\ (i < Len(hist)
                      /\ hist[i + 1].target # call.target
                      /\ <<call.from, hist[i + 1].target>> \in LegalPairs)
                   => /\ hist[i + 1].raised = "none"
                      /\ StatusAfter(i + 1) = hist[i + 1].target

\* a rejected self-transition followed by an accepted call with another target
C1_Witness ==
    \E i \in 1..(Len(hist) - 1) :
        /\ hist[i].raised = "ValueError"
        /\ hist[i].from = hist[i].target
        /\ hist[i + 1].raised = "none"
        /\ hist[i + 1].target # hist[i].target
        /\ status = hist[i + 1].target

RECURSIVE Closure(_)
Closure(S) ==
    LET T == S \cup UNION {AllowedFrom(s) : s \in S}
    IN  IF T = S THEN S ELSE Closure(T)

\* the statuses reachable from s by one or more legal transitions
ReachableFrom(s) == Closure(AllowedFrom(s))

\* C2: no status the machine reaches is terminal: a legal transition exists
\* in it, NORMAL can be reached again from it, and every accepted transition
\* out of RECOVERY went to NORMAL, the only target accepted there.
C2_NoTerminalState ==
    /\ \E t \in IsolationStatus : TransitionAllowed(status, t)
    /\ "NORMAL" \in ReachableFrom(status)
    /\ status = "RECOVERY" =>
          \A t \in IsolationStatus : TransitionAllowed(status, t) <=> t = "NORMAL"
    /\ \A i \in 1..Len(hist) :
          (hist[i].from = "RECOVERY" /\ hist[i].raised = "none")
              => hist[i].target = "NORMAL"

\* the cycle was closed: RECOVERY was left for NORMAL
C2_Witness ==
    /\ hist # <<>>
    /\ hist[Len(hist)].from = "RECOVERY"
    /\ hist[Len(hist)].raised = "none"
    /\ status = "NORMAL"

\* C3: with the calls serialized every change of the shared status is a
\* legal pair; without serialization a change along an illegal pair occurs.
C3_SerializedChangesLegal ==
    (serialized /\ lastChange # <<>>) => lastChange \in LegalPairs

\* two unserialized callers moved the status along a pair outside the table
C3_Witness ==
    /\ ~serialized
    /\ lastChange # <<>>
    /\ lastChange \notin LegalPairs

(***************************************************************************)
(* Properties of the isolation planner                                     *)
(***************************************************************************)
\* the junctions at most k valve traversals away from a junction of S
RECURSIVE WithinDistance(_, _, _)
WithinDistance(g, S, k) ==
    IF k < 0 THEN {}
    ELSE IF k = 0 THEN S
    ELSE LET near == WithinDistance(g, S, k - 1)
         IN  near \cup UNION {neighbors(g, n) : n \in near}

JunctionsOf(g) == UNION {{g[i].connects[1], g[i].connects[2]} : i \in 1..Len(g)}

StepValve(i) == ValveById(graph, planned.steps[i].valve_id)

StepIds == {planned.steps[i].valve_id : i \in 1..Len(planned.steps)}

\* C4: every valve of a returned plan has an endpoint junction at distance
\* at most max_hops - 1 from start_node or end_node; with max_hops = 0, or
\* with neither node in the graph, the plan has no steps.
C4_StepsWithinMaxHops ==
    planned.returned =>
        LET near == WithinDistance(graph, {leak[1], leak[2]}, config.max_hops - 1)
        IN  /\ \A i \in 1..Len(planned.steps) :
                  \/ StepValve(i).connects[1] \in near
                  \/ StepValve(i).connects[2] \in near
            /\ config.max_hops = 0 => planned.steps = <<>>
            /\ {leak[1], leak[2]} \cap JunctionsOf(graph) = {} => planned.steps = <<>>

\* a plan that took a valve next to the leak and left out a valve that is
\* connected to the leak, but too far from it
C4_Witness ==
    /\ planned.returned
    /\ planned.steps # <<>>
    /\ \E i \in 1..Len(graph) :
          /\ graph[i].id \notin StepIds
          /\ graph[i].connects[1]
                \in WithinDistance(graph, {leak[1], leak[2]}, Len(graph))
          /\ {graph[i].connects[1], graph[i].connects[2]}
                \cap WithinDistance(graph, {leak[1], leak[2]}, config.max_hops - 1) = {}

\* C5: every plan that plan() returns has approval_required = TRUE, the
\* plans without steps included.
C5_ApprovalAlwaysRequired ==
    planned.returned => planned.approval_required = TRUE

\* a returned plan without steps that still asks for approval
C5_Witness ==
    /\ planned.returned
    /\ planned.steps = <<>>
    /\ planned.approval_required

\* C6: the steps are in ascending order of (customers_affected, loss_rate)
\* under MINIMIZE_CUSTOMERS and of (loss_rate, customers_affected) under
\* MINIMIZE_WATER_LOSS, their order fields are 1..N, and under
\* MINIMIZE_CUSTOMERS the first step has the least customers_affected.
C6_StepsRankedByPolicy ==
    planned.returned =>
        LET st == planned.steps IN
        /\ \A i \in 1..Len(st) : st[i].order = i
        /\ config.policy = MINIMIZE_CUSTOMERS =>
              /\ \A i, j \in 1..Len(st) : i < j =>
                    \/ st[i].customers_affected < st[j].customers_affected
                    \/ /\ st[i].customers_affected = st[j].customers_affected
                       /\ st[i].loss_rate_lps <= st[j].loss_rate_lps
              /\ \A j \in 1..Len(st) :
                    st[1].customers_affected <= st[j].customers_affected
        /\ config.policy = MINIMIZE_WATER_LOSS =>
              \A i, j \in 1..Len(st) : i < j =>
                    \/ st[i].loss_rate_lps < st[j].loss_rate_lps
                    \/ /\ st[i].loss_rate_lps = st[j].loss_rate_lps
                       /\ st[i].customers_affected <= st[j].customers_affected

\* two candidates tie on customers_affected; the search found the one with
\* the greater loss rate first and the ranking put it second
C6_Witness ==
    /\ planned.returned
    /\ config.policy = MINIMIZE_CUSTOMERS
    /\ Len(planned.steps) = 2
    /\ planned.steps[1].customers_affected = planned.steps[2].customers_affected
    /\ planned.steps[1].loss_rate_lps < planned.steps[2].loss_rate_lps
    /\ valve_hops[1].id = planned.steps[2].valve_id

SampleAllowed == {"V_RES_J1", "V_J1_J2", "V_J2_J3", "V_J2_J5"}

\* C7 as stated: on the sample graph with max_hops = 1 the plan for a leak
\* between J2 and J3 holds only valves of SampleAllowed.
C7_AsStated ==
    (planned.returned /\ graph = SampleGraph /\ config.max_hops = 1
        /\ leak = <<"J2", "J3">>)
    => StepIds \subseteq SampleAllowed

\* C7, amended: on the sample graph with max_hops = 1 the plan for a leak
\* between J1 and J2 holds only valves of SampleAllowed; the plan for a leak
\* between J2 and J3 holds V_J1_J2, V_J2_J3, V_J2_J5 and V_J3_J4.
C7_SamplePlanRadiusOne ==
    (planned.returned /\ graph = SampleGraph /\ config.max_hops = 1) =>
        /\ leak = <<"J1", "J2">> => StepIds \subseteq SampleAllowed
        /\ leak = <<"J2", "J3">> =>
              StepIds = {"V_J1_J2", "V_J2_J3", "V_J2_J5", "V_J3_J4"}

\* the plan for the leak between J1 and J2 was returned, with steps
C7_Witness ==
    /\ planned.returned
    /\ graph = SampleGraph
    /\ config.max_hops = 1
    /\ leak = <<"J1", "J2">>
    /\ planned.steps # <<>>

\* C8: a plan call under a policy that is neither MINIMIZE_CUSTOMERS nor
\* MINIMIZE_WATER_LOSS ends in a ConfigurationError and returns no plan.
C8_UnknownPolicyRejected ==
    (ppc = "done" /\ config.policy \notin {MINIMIZE_CUSTOMERS, MINIMIZE_WATER_LOSS})
    => /\ planned.raised = "ConfigurationError"
       /\ ~planned.returned

\* one iteration of the loop: a junction that was expanded before, or that
\* lies beyond max_hops, is dropped from the queue and nothing else changes;
\* any other junction is marked visited
LoopStep == ppc = "loop" /\ ppc' = "loop" /\ queue # <<>>

ExpandsOnce ==
    LoopStep =>
        IF Head(queue)[1] \in visited \/ Head(queue)[2] > config.max_hops
        THEN queue' = Tail(queue) /\ visited' = visited /\ valve_hops' = valve_hops
        ELSE visited' = visited \cup {Head(queue)[1]} /\ visited' # visited

\* nothing is queued or recorded beyond max_hops
StopsAtMaxHops ==
    /\ \A i \in 1..Len(queue) : queue[i][2] <= Max(config.max_hops, 0)
    /\ \A i \in 1..Len(valve_hops) : valve_hops[i].hops <= config.max_hops

\* C23: plan terminates on every finite valve graph, with cycles,
\* self-loops and start_node = end_node included: each junction is expanded
\* at most once, and the search stops expanding at max_hops.
C23_PlanTerminates ==
    /\ [][ExpandsOnce]_vars
    /\ []StopsAtMaxHops
    /\ (ppc = "loop") ~> (ppc = "done")

\* a plan returned for the ring with its self-loop, start_node = end_node,
\* every junction of the ring expanded
C23_Witness ==
    /\ ppc = "done"
    /\ graph = RingGraph
    /\ leak = <<"J1", "J1">>
    /\ visited = {"J1", "J2", "J3"}
    /\ planned.returned

\* the ids of the valves with a junction at most max_hops - 1 valves away
\* from start_node or end_node
ValvesNearLeak ==
    LET near == WithinDistance(graph, {leak[1], leak[2]}, config.max_hops - 1)
    IN  {graph[i].id : i \in {j \in 1..Len(graph) :
                                  \/ graph[j].connects[1] \in near
                                  \/ graph[j].connects[2] \in near}}

\* C27: the plan is complete: for every valve set (several valves between
\* one pair of junctions included) the returned steps are, each exactly
\* once, the valves with a junction within max_hops - 1 valves of
\* start_node or end_node, a set that does not depend on which of the two
\* is which.
C27_PlanComplete ==
    planned.returned =>
        /\ StepIds = ValvesNearLeak
        /\ Len(planned.steps) = Cardinality(StepIds)

(***************************************************************************)
(* Properties of the leak detector                                         *)
(***************************************************************************)
\* C9: detect on a detector that was never fitted raises RuntimeError (the
\* StateError) and returns nothing, whatever the events; a fit_baseline
\* call that fails, as it does on empty input, leaves the baseline as it
\* was; once a fit_baseline call has succeeded the baseline stays set and
\* detect no longer raises RuntimeError.
C9_FitBeforeDetect ==
    /\ (lastCall.op = "detect" /\ ~lastCall.before.fitted) =>
          /\ lastCall.raised = "RuntimeError"
          /\ lastCall.results = <<>>
    /\ (lastCall.op = "fit_baseline" /\ lastCall.events = <<>>) =>
          lastCall.raised = "ValueError"
    /\ (lastCall.op = "fit_baseline" /\ lastCall.raised # "none") =>
          baseline = lastCall.before
    /\ everFitted => baseline.fitted
    /\ (lastCall.op = "detect" /\ lastCall.before.fitted) =>
          lastCall.raised # "RuntimeError"

\* detect was called on an unfitted detector with too few rows for
\* minimum_support, and raised RuntimeError all the same
C9_Witness ==
    /\ lastCall.op = "detect"
    /\ ~lastCall.before.fitted
    /\ lastCall.events # <<>>
    /\ Len(lastCall.rows) < dconfig.minimum_support
    /\ lastCall.raised = "RuntimeError"

\* a column of the window has a degenerate spread
Degenerate(xs) == Len(xs) = 1 \/ \A i, j \in 1..Len(xs) : xs[i] = xs[j]

\* C10: every stored standard deviation of a fitted baseline is a number
\* other than 0, it is 1.0 when the window's column is degenerate (zero
\* spread, or a single sample), and detect never divides by zero.
C10_StdFlooredNeverZero ==
    /\ baseline.fitted =>
          \A column \in BaselineColumns :
              LET std == baseline.stats[column].std IN
              /\ ~std.nan
              /\ std.v # 0
              /\ Degenerate(Column(fitWindow, column)) => std = Num(Scale)
    /\ lastCall.raised # "ZeroDivisionError"

(***************************************************************************)
(* Properties of feature extraction                                        *)
(***************************************************************************)
\* no timestamp of events has all three aggregates after forward-fill
NoCompleteRow(events) == FilledRows(events, 1, [c \in FeatureColumns |-> NaN]) = <<>>

\* the call got as far as feature extraction
ExtractedFeatures ==
    \/ lastCall.op = "fit_baseline"
    \/ lastCall.op = "detect" /\ lastCall.before.fitted

\* C24: feature extraction fails with a DataError (ValueError, the error of
\* "no telemetry events supplied") whenever its result is empty, and
\* fit_baseline and detect report that same error kind, both when no events
\* are supplied and when events are supplied but no timestamp ends up with
\* all three aggregates after forward-fill, as in a window without pressure
\* readings.
C24_EmptyFeaturesRaiseDataError ==
    (ExtractedFeatures /\ NoCompleteRow(lastCall.events)) =>
        lastCall.raised = "ValueError"

(***************************************************************************)
(* Properties of successive detect calls                                   *)
(***************************************************************************)
\* what the first detect call on events returns after the fit_baseline call
\* that computed the baseline from fitWindow
FirstDetect(events) ==
    DetectOutcome(BaselineOf(fitWindow, dconfig.baseline_window),
                  events_to_features(events), dconfig.minimum_support)

SameAsFirstDetect ==
    (lastCall.op = "detect" /\ everFitted) =>
        /\ lastCall.raised = FirstDetect(lastCall.events).raised
        /\ lastCall.results = FirstDetect(lastCall.events).results
        /\ lastCall.results # <<>> =>
               lastCall.results[1].cumulative
                   = accumulate(0, lastCall.results[1].score, DefaultDetectorConfig)

DetectKeepsBaseline == (lastCall'.op = "detect") => (baseline' = baseline)

\* C22: detect carries no state from one call to the next: the cumulative
\* score starts at 0 in every call and detect does not modify the fitted
\* baseline, so after any earlier detect calls a detect call on given rows
\* returns what the first detect call on those rows returns after the same
\* fit_baseline.
C22_DetectCarriesNoState == ([]SameAsFirstDetect) /\ ([][DetectKeepsBaseline]_vars)

\* a detect call right after a detect call that returned results, itself
\* ending with a cumulative score above 0
C22_Witness ==
    /\ lastCall.op = "detect"
    /\ lastCall.earlier
    /\ lastCall.raised = "none"
    /\ lastCall.results # <<>>
    /\ lastCall.results[Len(lastCall.results)].cumulative > 0

(***************************************************************************)
(* Properties of the leak detector's reasons                               *)
(***************************************************************************)
MetricIndex(metric) == CHOOSE k \in 1..3 : Metrics[k] = metric

PositiveMetrics(scores) == {m \in DOMAIN scores : scores[m] > 0}

\* r comes before q when the scores are sorted descending, equal scores in
\* the order of the dict
RanksBefore(scores, m, n) ==
    \/ scores[m] > scores[n]
    \/ scores[m] = scores[n] /\ MetricIndex(m) < MetricIndex(n)

\* reasons is the list obtained by filtering scores to those > 0, sorting
\* descending and keeping the first limit entries
IsFilterSortTop(reasons, scores, limit) ==
    LET listed == {reasons[i].metric : i \in 1..Len(reasons)}
        wanted == IF Cardinality(PositiveMetrics(scores)) < limit
                  THEN Cardinality(PositiveMetrics(scores)) ELSE limit
    IN  /\ Len(reasons) = wanted
        /\ Cardinality(listed) = Len(reasons)
        /\ listed \subseteq PositiveMetrics(scores)
        /\ \A i \in 1..Len(reasons) : reasons[i].score = scores[reasons[i].metric]
        /\ \A i, j \in 1..Len(reasons) :
               i < j => RanksBefore(scores, reasons[i].metric, reasons[j].metric)
        /\ \A m \in PositiveMetrics(scores) \ listed :
               \A n \in listed : RanksBefore(scores, n, m)

\* C11: the reasons of a result hold only metrics with a z-score > 0, are
\* sorted by score descending, have at most max_reasons entries, and are the
\* list obtained by filtering the three scores to those > 0, sorting them
\* descending and keeping the top max_reasons.
C11_ReasonsFilteredSortedCapped ==
    rout # NotCalled =>
        /\ \A i \in 1..Len(rout) : rout[i].score > 0
        /\ \A i, j \in 1..Len(rout) : i < j => rout[i].score >= rout[j].score
        /\ Len(rout) <= rlimit
        /\ IsFilterSortTop(rout, rscores, rlimit)

\* three positive scores, not in dict order, cut to two reasons
C11_Witness ==
    /\ rout # NotCalled
    /\ rlimit = 2
    /\ rscores["pressure"] > 0
    /\ rscores["pressure"] < rscores["flow"]
    /\ rscores["flow"] < rscores["demand"]
    /\ Len(rout) = 2
    /\ rout[1].metric = "demand"

(***************************************************************************)
(* Properties of the cumulative score of detect                            *)
(***************************************************************************)
\* the current row has a score s with (s - hysteresis) / (1 - decay) above
\* the trigger threshold
SustainedRow == cscore # NoRow /\ Sustains(cscore, ccfg)

TriggeredRow == ctriggered /\ cprob \in {"0.5", "above 0.5"}

\* a triggered row followed by a sustaining row is followed by a triggered row
StaysTriggered == (ctriggered /\ Sustains(cscore', ccfg)) => ctriggered'

\* C12: if from some row on every row's score is at least a value s with
\* (s - hysteresis) / (1 - decay) > trigger_threshold, then after finitely
\* many further rows the result is triggered with probability >= 0.5, and
\* every later row stays triggered while such rows continue.
C12_SustainedAnomalyDetected ==
    /\ [][StaysTriggered]_vars
    /\ (<>[]SustainedRow) => (<>[]TriggeredRow)

\* a run of sustaining rows at the end of which the result is triggered for
\* the first time
C12_Witness ==
    /\ crun = MaxRun
    /\ SustainedRow
    /\ TriggeredRow
    /\ ~cwas

\* the least s >= hysteresis that no row of the call so far exceeds
LeastCeiling == Max(cmax, ccfg.hysteresis)

\* cumulative <= (s - hysteresis) / (1 - decay), cross-multiplied
WithinLimit(cum, s, cfg) == cum * (Scale - cfg.decay) <= (s - cfg.hysteresis) * Scale

\* (s - hysteresis) / (1 - decay) < trigger_threshold, cross-multiplied
LimitBelowThreshold(s, cfg) ==
    (s - cfg.hysteresis) * Scale < cfg.trigger_threshold * (Scale - cfg.decay)

CumulativeAtLeast ==
    \/ kcum.grid > kcfg.trigger_threshold
    \/ kcum.grid = kcfg.trigger_threshold /\ kcum.ulps >= 0

\* cumulative is below trigger_threshold by less than 15/14 of 2^-52: the
\* exponent is then under 1.5 * 2^-52 and 1.0 + exp(exponent) rounds to 2.0
JustBelow ==
    /\ kcum.grid = kcfg.trigger_threshold
    /\ kcum.ulps < 0
    /\ 14 * (-kcum.ulps) * kcfg.ulp < 60

CutoffIsHalf == ktriggered <=> kprob \in {"0.5", "above 0.5"}

Scheduled == sresult.raised = "none"

\* the hours for which build_schedule counted a guardrail breach
BreachHours == {i \in 1..Len(sresult.steps) : sresult.steps[i].guardrail_triggered}

\* C14: for every forecast, tariff series and scheduler configuration, every
\* step of build_schedule has 0 <= pumps_on <= max_parallel_pumps, also after
\* the demand rule and the pressure guardrail have been applied.
C14_PumpsWithinParallelLimit ==
    Scheduled =>
        \A i \in 1..Len(sresult.steps) :
            /\ 0 <= sresult.steps[i].pumps_on
            /\ sresult.steps[i].pumps_on <= sconfig.max_parallel_pumps

\* C15: a step for which a guardrail breach was recorded has pumps_on >= 1
\* and a reported expected pressure >= min_pressure_kpa, and
\* pressure_guard_breaches is the number of such hours.
C15_BreachForcesPumpAndFloor ==
    Scheduled =>
        /\ \A i \in BreachHours :
               /\ sresult.steps[i].pumps_on >= 1
               /\ sresult.steps[i].expected_pressure_kpa >= sconfig.min_pressure_kpa
        /\ sresult.pressure_guard_breaches = Cardinality(BreachHours)

ZeroDemand ==
    /\ sforecast # <<>>
    /\ \A i \in 1..Len(sforecast) : sforecast[i].demand_lps = 0

\* neither the demand rule nor the guardrail raised the pump count of a
\* step, and no breach was recorded
NothingForced ==
    /\ \A i \in 1..Len(sresult.steps) :
           /\ sresult.steps[i].pumps_demanded = sresult.steps[i].pumps_scored
           /\ sresult.steps[i].pumps_on = sresult.steps[i].pumps_demanded
           /\ ~sresult.steps[i].guardrail_triggered
    /\ sresult.pressure_guard_breaches = 0

\* C16 as stated: given a forecast whose demand is 0 at every hour,
\* build_schedule never forces pumps_on >= 1 and records 0 guardrail breaches.
C16_AsStated == (Scheduled /\ ZeroDemand) => NothingForced

\* C16, amended: the same, for a configuration whose pressure floor is not
\* above its nominal pressure (as in the default configuration).
C16_ZeroDemandForcesNothing ==
    (Scheduled /\ ZeroDemand /\ sconfig.min_pressure_kpa <= sconfig.nominal_pressure_kpa)
        => NothingForced

\* a zero-demand forecast for which a pump still runs, on the low tariff
C16_Witness ==
    /\ Scheduled
    /\ ZeroDemand
    /\ sconfig.min_pressure_kpa <= sconfig.nominal_pressure_kpa
    /\ Len(sresult.steps) = Len(sforecast)
    /\ \E i \in 1..Len(sresult.steps) : sresult.steps[i].pumps_on = 1
    /\ \E i \in 1..Len(sresult.steps) : sresult.steps[i].pumps_on = 0

\* C28: in every schedule step the tuple of active pump ids has exactly
\* pumps_on entries and is the first pumps_on ids of the configured pump_ids
\* list, in order, for every configuration (any number of pump_ids and any
\* max_parallel_pumps).
C28_ActivePumpsMatchCount ==
    Scheduled =>
        \A i \in 1..Len(sresult.steps) :
            /\ Len(sresult.steps[i].pump_ids) = sresult.steps[i].pumps_on
            /\ \A k \in 1..Len(sresult.steps[i].pump_ids) :
                   sresult.steps[i].pump_ids[k] = sconfig.pump_ids[k]

(***************************************************************************)
(* Properties of the forecaster and the optimizer                          *)
(***************************************************************************)
Returned == eout.op # "none" /\ eout.raised = "none"

\* the points are h points, at the hour offsets 1..h after the last hourly
\* sample of the history
OnePointPerHour(points, h) ==
    /\ Len(points) = h
    /\ \A i \in 1..Len(points) : points[i].timestamp = ehistory.last + 60 * i

\* one step per point, in the order of the points
OneStepPerPoint(steps, points) ==
    /\ Len(steps) = Len(points)
    /\ \A i \in 1..Len(steps) : steps[i].start = hour_floor(points[i].timestamp)

\* C17: forecast with horizon_hours = h supplied (every integer h >= 0)
\* returns exactly h points, one per hour offset 1..h after the last hourly
\* history sample, in ascending time order; build_schedule returns one step
\* per forecast point in the same order, so optimize(horizon_hours = h)
\* reports h forecast points and h schedule steps.
C17_HorizonGivesPointsAndSteps ==
    (Returned /\ ehorizon.given) =>
        /\ eout.op = "forecast" => OnePointPerHour(eout.points, ehorizon.hours)
        /\ eout.op = "optimize" =>
               /\ OnePointPerHour(eout.forecast, ehorizon.hours)
               /\ OneStepPerPoint(eout.schedule.steps, eout.forecast)
               /\ Len(eout.schedule.steps) = ehorizon.hours

(***************************************************************************)
(* Properties of the isolation endpoints                                   *)
(***************************************************************************)
\* C18: an /isolation/execute request without approved_by is rejected with
\* HTTP 400: no valve action is recorded and the isolation status is
\* unchanged, whatever the status and whether or not a plan was requested.
C18_ExecuteNeedsApproval ==
    (alast.handler = "execute" /\ alast.approved_by = NoApprover) =>
        /\ alast.code = 400
        /\ aactions = alast.actions_before
        /\ astatus = alast.before
        /\ alast.changes = <<>>

\* an unapproved execute request with valves to close, after a plan request
C18_Witness ==
    /\ alast.handler = "execute"
    /\ alast.approved_by = NoApprover
    /\ alast.valve_ids # <<>>
    /\ alast.before = "ISOLATING"
    /\ alast.code = 400

\* the statuses of the last request: before, after each change, in order
Path(request) ==
    <<request.before>> \o [i \in 1..Len(request.changes) |-> request.changes[i].to]

\* C19: a plan request in NORMAL moves the status to ISOLATING through
\* SUSPECTED, an approved execute request in ISOLATING moves it to ISOLATED,
\* a rollback request in ISOLATING or ISOLATED moves it to NORMAL through
\* RECOVERY, and every status change made by the handlers is a legal
\* transition of the state machine.
C19_RequestsFollowLifecycle ==
    /\ (alast.handler = "plan" /\ alast.before = "NORMAL")
           => (Path(alast) = <<"NORMAL", "SUSPECTED", "ISOLATING">>
               /\ astatus = "ISOLATING")
    /\ (alast.handler = "execute" /\ alast.approved_by # NoApprover
           /\ alast.before = "ISOLATING")
           => (Path(alast) = <<"ISOLATING", "ISOLATED">> /\ astatus = "ISOLATED")
    /\ (alast.handler = "rollback" /\ alast.before \in {"ISOLATING", "ISOLATED"})
           => (Path(alast) = <<alast.before, "RECOVERY", "NORMAL">> /\ astatus = "NORMAL")
    /\ \A i \in 1..Len(alast.changes) :
           /\ <<alast.changes[i].from, alast.changes[i].to>> \in LegalPairs
           /\ alast.changes[i].from = Path(alast)[i]
    /\ astatus = Path(alast)[Len(Path(alast))]

\* a rollback served in ISOLATED, which an approved execute had reached
C19_Witness ==
    /\ alast.handler = "rollback"
    /\ alast.before = "ISOLATED"
    /\ astatus = "NORMAL"
    /\ \E i \in 1..Len(aactions) : aactions[i].action = "close"

\* the last request was an accepted /isolation/execute: approved_by was
\* given and its "close" actions are recorded as completed
ExecuteAccepted ==
    /\ alast.handler = "execute"
    /\ approval_provided(alast.approved_by)
    /\ alast.code = 200
    /\ aactions = alast.actions_before
                  \o ActionsFor(alast.valve_ids, "close",
                                performed_by(alast.approved_by, "unknown"))

\* C26: after an accepted /isolation/execute request the isolation status
\* is ISOLATED, whatever the status was before the request (NORMAL
\* included, when no plan was requested first).
C26_AcceptedExecuteIsolates == ExecuteAccepted => astatus = "ISOLATED"

(***************************************************************************)
(* Properties of the agent episode                                         *)
(***************************************************************************)
TypesPublished == {bhistory[i].type : i \in 1..Len(bhistory)}

Published(type) == {i \in 1..Len(bhistory) : bhistory[i].type = type}

\* the Actuator's answer to the plan.isolation event at position i: the
\* actuation events it published before the next plan.isolation event
AnswersTo(i) ==
    {j \in (i + 1)..Len(bhistory) :
        /\ bhistory[j].type \in {"actuation.pending", "actuation.approved"}
        /\ bhistory[j].source = "Actuator"
        /\ \A k \in (i + 1)..j : bhistory[k].type # "plan.isolation"}

\* C20: for every plan.isolation event the Actuator publishes exactly one
\* of actuation.pending and actuation.approved, and actuation.approved only
\* when the actuator policy has require_approval = false and
\* auto_execute = true; so under the default actuator policy a telemetry
\* window that triggers a leak alert produces alert.leak, plan.isolation,
\* energy.plan and actuation.pending, and never actuation.approved.
C20_ActuatorAnswersOncePendingByDefault ==
    /\ bphase = "returned" =>
           \A i \in Published("plan.isolation") : Cardinality(AnswersTo(i)) = 1
    /\ \A i \in Published("plan.isolation") : Cardinality(AnswersTo(i)) <= 1
    /\ Cardinality(Published("actuation.pending")) + Cardinality(Published("actuation.approved"))
           <= Cardinality(Published("plan.isolation"))
    /\ Published("actuation.approved") # {} =>
           /\ "require_approval" \in DOMAIN bpolicy.actuator
           /\ bpolicy.actuator["require_approval"] = FALSE
           /\ "auto_execute" \in DOMAIN bpolicy.actuator
           /\ bpolicy.actuator["auto_execute"] = TRUE
    /\ (/\ bphase = "returned"
        /\ bpolicy.actuator = DEFAULT_POLICY.actuator
        /\ \E i \in Published("alert.leak") : bhistory[i].payload.triggered)
           => /\ {"alert.leak", "plan.isolation", "energy.plan", "actuation.pending"}
                     \subseteq TypesPublished
              /\ "actuation.approved" \notin TypesPublished

\* the episode of the default policy and the default window, returned
C20_Witness ==
    /\ bphase = "returned"
    /\ bpolicy.actuator = DEFAULT_POLICY.actuator
    /\ bwindow.pressure_drop_kpa = 8
    /\ Published("plan.isolation") # {}
    /\ Published("actuation.pending") # {}
    /\ Published("energy.plan") # {}

\* the place of an event in history(): the events of one episode differ
\* from each other
HistoryIndex(event) == CHOOSE i \in 1..Len(bhistory) : bhistory[i] = event

\* the events a subscriber's callback was called with, in the order of
\* the calls, by their place in history()
SeenBy(agent) ==
    LET calls == SelectSeq(bdelivered, LAMBDA d : d.agent = agent)
    IN  [i \in 1..Len(calls) |-> HistoryIndex(calls[i].event)]

\* C30: every subscriber, the wildcard subscriber of the Watcher included,
\* is delivered events in the order in which they appear in history(), also
\* when handlers publish from inside their callback: no subscriber sees an
\* event before it has seen the event that caused it.
C30_DeliveredInHistoryOrder ==
    \A agent \in {"LeakDetect", "Planner", "EnergyOpt", "Actuator", "Watcher"} :
        \A i, j \in 1..Len(SeenBy(agent)) :
            i < j => SeenBy(agent)[i] < SeenBy(agent)[j]

(***************************************************************************)
(* Properties of run_episode                                               *)
(***************************************************************************)
\* the system.mode events with mode = safe that the Watcher published
SafeModeEvents ==
    {i \in Published("system.mode") :
        bhistory[i].payload.mode = "safe" /\ bhistory[i].source = "Watcher"}

\* the chaos draw is certain to fire: chaos_chance = 1.0, given by
\* chaos_override or, without an override, by the loaded policy
ChaosDrawFires ==
    IF boverride.given THEN boverride.value = 100
    ELSE bpolicy.watcher.chaos_chance = 100

\* C21: when actuation.approved is published and the Watcher's chaos draw
\* fires (chaos_chance = 1.0, also when set by chaos_override over a policy
\* file that says 0.0), the Watcher publishes chaos.injected and, with
\* safe_mode_on_failure true, the history of the episode holds exactly one
\* system.mode event with mode = safe from the Watcher, whatever the number
\* of radius breaches and chaos faults.
C21_ChaosGivesOneSafeMode ==
    (Published("actuation.approved") # {} /\ ChaosDrawFires) =>
        /\ Cardinality(SafeModeEvents) <= 1
        /\ bphase = "returned" =>
               /\ \E i \in Published("chaos.injected") : bhistory[i].source = "Watcher"
               /\ bpolicy.watcher.safe_mode_on_failure => Cardinality(SafeModeEvents) = 1

\* an episode over a file that says chaos_chance 0.0 and max_radius_m 400,
\* run with chaos_override = 1.0: a chaos fault and a radius breach
C21_Witness ==
    /\ bphase = "returned"
    /\ bpath.given
    /\ bpath.agents.watcher = [chaos_chance |-> 0, safe_mode_on_failure |-> TRUE,
                               max_radius_m |-> 400]
    /\ boverride = Override(100)
    /\ Published("actuation.approved") # {}
    /\ Published("chaos.injected") # {}
    /\ \E i \in Published("plan.isolation") :
           bhistory[i].payload.radius_m > bpolicy.watcher.max_radius_m
    /\ Cardinality(SafeModeEvents) = 1

\* an episode was started without a policy file and without chaos_override
PlainEpisode == bruns >= 1 /\ ~bpath.given /\ ~boverride.given

\* C29: run_episode leaves the module-level DEFAULT_POLICY unchanged: a
\* chaos_override applies only to the episode it is passed to, so after
\* it load_policy(None) still returns the original defaults and a later
\* run_episode() without an override runs the Watcher with the default
\* chaos_chance.
C29_DefaultPolicyUnchanged ==
    /\ mdefault = DEFAULT_POLICY
    /\ load_policy(mdefault, NoPath) = DEFAULT_POLICY
    /\ PlainEpisode =>
           bpolicy.watcher.chaos_chance = DEFAULT_POLICY.watcher.chaos_chance

(***************************************************************************)
(* Specifications                                                          *)
(***************************************************************************)
NextFSM == \E new_status \in IsolationStatus : transition(new_status)

StartFSM == InitFSM /\ IdleRace /\ IdlePlan /\ IdleDetect /\ IdleReasons /\ IdleCusum /\ IdleSched /\ IdleEnergy /\ IdleApi /\ IdleAgents /\ IdleEpisodes /\ IdleCalib

SpecFSM == StartFSM /\ [][NextFSM]_vars

NextRace ==
    \/ \E c \in Callers, new_status \in IsolationStatus : RaceCall(c, new_status)
    \/ \E c \in Callers : RaceCheck(c)
    \/ \E c \in Callers : RaceAssign(c)
    \/ \E c \in Callers : RaceReturn(c)

StartRace == IdleFSM /\ InitRace /\ IdlePlan /\ IdleDetect /\ IdleReasons /\ IdleCusum /\ IdleSched /\ IdleEnergy /\ IdleApi /\ IdleAgents /\ IdleEpisodes /\ IdleCalib

SpecRace == StartRace /\ [][NextRace]_vars

NextPlan ==
    \/ \E loc \in LeakLocations : PlanCall(loc[1], loc[2])
    \/ PlanIterate
    \/ PlanReturn

StartPlan == IdleFSM /\ IdleRace /\ InitPlan /\ IdleDetect /\ IdleReasons /\ IdleCusum /\ IdleSched /\ IdleEnergy /\ IdleApi /\ IdleAgents /\ IdleEpisodes /\ IdleCalib

SpecPlan == StartPlan /\ [][NextPlan]_vars

StartSearch == IdleFSM /\ IdleRace /\ InitSearch /\ IdleDetect /\ IdleReasons /\ IdleCusum /\ IdleSched /\ IdleEnergy /\ IdleApi /\ IdleAgents /\ IdleEpisodes /\ IdleCalib

SpecSearch == StartSearch /\ [][NextPlan]_vars

\* the loop of plan keeps running, and plan returns once it has left the loop
FairSearch == SpecSearch /\ WF_vars(PlanIterate) /\ WF_vars(PlanReturn)

NextDetect ==
    \/ \E events \in EventBatches : fit_baseline(events)
    \/ \E events \in EventBatches : detect(events)

StartDetect == IdleFSM /\ IdleRace /\ IdlePlan /\ InitDetect /\ IdleReasons /\ IdleCusum /\ IdleSched /\ IdleEnergy /\ IdleApi /\ IdleAgents /\ IdleEpisodes /\ IdleCalib

SpecDetect == StartDetect /\ [][NextDetect]_vars

NextReasons == CallTopReasons

StartReasons == IdleFSM /\ IdleRace /\ IdlePlan /\ IdleDetect /\ InitReasons /\ IdleCusum /\ IdleSched /\ IdleEnergy /\ IdleApi /\ IdleAgents /\ IdleEpisodes /\ IdleCalib

SpecReasons == StartReasons /\ [][NextReasons]_vars

NextCusum ==
    \/ DetectBegin
    \/ \E score \in RowScores : DetectRow(score)

StartCusum == IdleFSM /\ IdleRace /\ IdlePlan /\ IdleDetect /\ IdleReasons /\ InitCusum /\ IdleSched /\ IdleEnergy /\ IdleApi /\ IdleAgents /\ IdleEpisodes /\ IdleCalib

SpecCusum == StartCusum /\ [][NextCusum]_vars

\* the loop goes on to the next row while rows remain
FairCusum == SpecCusum /\ WF_vars(\E score \in RowScores : DetectRow(score))

NextSched == CallBuildSchedule

StartSched == IdleFSM /\ IdleRace /\ IdlePlan /\ IdleDetect /\ IdleReasons /\ IdleCusum /\ InitSched /\ IdleEnergy /\ IdleApi /\ IdleAgents /\ IdleEpisodes /\ IdleCalib

SpecSched == StartSched /\ [][NextSched]_vars

NextEnergy ==
    \/ CallForecast
    \/ CallOptimize

StartEnergy == IdleFSM /\ IdleRace /\ IdlePlan /\ IdleDetect /\ IdleReasons /\ IdleCusum /\ IdleSched /\ InitEnergy /\ IdleApi /\ IdleAgents /\ IdleEpisodes /\ IdleCalib

SpecEnergy == StartEnergy /\ [][NextEnergy]_vars

NextApi ==
    \/ plan_isolation
    \/ \E approved_by \in Approvers, valve_ids \in ValveIdLists :
           execute_isolation(approved_by, valve_ids)
    \/ \E approved_by \in Approvers, valve_ids \in ValveIdLists :
           rollback_isolation(approved_by, valve_ids)

StartApi == IdleFSM /\ IdleRace /\ IdlePlan /\ IdleDetect /\ IdleReasons /\ IdleCusum /\ IdleSched /\ IdleEnergy /\ InitApi /\ IdleAgents /\ IdleEpisodes /\ IdleCalib

SpecApi == StartApi /\ [][NextApi]_vars

NextAgents ==
    \/ PublishWindow
    \/ LeakDetectHandle
    \/ PlannerHandle
    \/ EnergyOptHandle
    \/ ActuatorHandle
    \/ WatcherRadius
    \/ WatcherSafeModeSet
    \/ WatcherChaos
    \/ WatcherFailure
    \/ WatcherMode
    \/ PublishReturn

StartAgents == IdleFSM /\ IdleRace /\ IdlePlan /\ IdleDetect /\ IdleReasons /\ IdleCusum /\ IdleSched /\ IdleEnergy /\ IdleApi /\ InitAgents /\ IdleEpisodes /\ IdleCalib

SpecAgents == StartAgents /\ [][NextAgents]_vars

NextEpisodes ==
    \/ \E policy_path \in PolicyPaths, telemetry_window \in TelemetryWindows,
          chaos_override \in ChaosOverrides :
           run_episode(policy_path, telemetry_window, chaos_override)
    \/ PublishWindow
    \/ LeakDetectHandle
    \/ PlannerHandle
    \/ EnergyOptHandle
    \/ ActuatorHandle
    \/ WatcherRadius
    \/ WatcherSafeModeSet
    \/ WatcherChaos
    \/ WatcherFailure
    \/ WatcherMode
    \/ PublishReturn

StartEpisodes == IdleFSM /\ IdleRace /\ IdlePlan /\ IdleDetect /\ IdleReasons /\ IdleCusum /\ IdleSched /\ IdleEnergy /\ IdleApi /\ InitEpisodes /\ IdleCalib

SpecEpisodes == StartEpisodes /\ [][NextEpisodes]_vars

NextCalib == \E cumulative \in FloatCumulatives(kcfg) : CalibrateRow(cumulative)

StartCalib == IdleFSM /\ IdleRace /\ IdlePlan /\ IdleDetect /\ IdleReasons /\ IdleCusum /\ IdleSched /\ IdleEnergy /\ IdleApi /\ IdleAgents /\ IdleEpisodes /\ InitCalib

SpecCalib == StartCalib /\ [][NextCalib]_vars

====
